---- MODULE Spec2Model ----
(***************************************************************************)
(* A model of the function-calling loop of gpt-oss-function-calling:       *)
(* ChatClient.chat (src/src/core/chat_client.py) with the tools of         *)
(* src/src/tools/implementations.py and the delegation entry point of      *)
(* src/src/core/subtask_executor.py.                                       *)
(*                                                                         *)
(* Under Spec one behaviour is one call of ChatClient.chat.  The model     *)
(* server and the transport are the environment: every response (or        *)
(* failure) they can produce is drawn from a bounded set when a request is *)
(* sent.  StreamSpec applies the stream decoder to pairs of response       *)
(* bodies, ReassemblySpec to one body whose frames address several tool    *)
(* calls, DelegatedSpec follows one delegation through                     *)
(* SubTaskExecutor.execute, RegistrySpec describes the tool registry and   *)
(* the group table of src/src/tools (decorator.py, groups.py) with the     *)
(* configuration files, and DispatchSpec the dispatch of one calculate     *)
(* call.                                                                   *)
(***************************************************************************)
EXTENDS Integers, Sequences, FiniteSets, TLC

VARIABLES
    lists,             \* the list objects: "caller" is the list passed as messages, "run" the copy
    current_messages,  \* which list object chat appends to (a reference)
    messages0,         \* history: the caller's list as it was when chat was called
    stream,            \* chat's stream argument
    max_iterations,    \* chat's max_iterations argument
    iteration,         \* the loop variable of chat
    pc,                \* position of the run in chat
    result,            \* what _send_request / _send_stream_request returned
    call_index,        \* position of _process_tool_calls in message["tool_calls"] (1-based)
    retval,            \* what chat returned
    terminal,          \* which return statement ended the run
    raised,            \* the exception that left chat, if any
    sent,              \* history: the messages of every request sent, in order
    invoked,           \* history: every tool function invoked, in order
    transport_failed,  \* history: a transport call of this run has failed
    bodies,            \* stream decoder: the response bodies (frame sequences) to decode
    decoded,           \* stream decoder: what _send_stream_request returned for each body
    client_parameters, \* the keyword parameters ChatClient.__init__ takes
    task,              \* delegation: the arguments of delegate_task and the id of its tool call
    parent_messages,   \* delegation: the conversation of the delegating run
    execute_result,    \* delegation: what SubTaskExecutor.execute returned
    sub_runs,          \* history: how many times execute has called client.chat
    files,             \* the configuration files: what is found at each path
    available_functions, \* AVAILABLE_FUNCTIONS: tool name -> callable
    tools_registry,    \* _TOOLS_REGISTRY: tool name -> tool definition
    tool_groups,       \* _TOOL_GROUPS: group name -> list of tool names
    initialized,       \* history: load_tool_groups has run
    agents_config,     \* SubTaskExecutor.agents_config: the profiles, in file order
    registrations,     \* history: every registration by @tool after the import, in order
    requested_groups,  \* the list of group names the process resolves
    call               \* the last call of the registry or the executor, with its outcome

chatVars == <<lists, current_messages, messages0, stream, max_iterations, iteration, pc,
              result, call_index, retval, terminal, raised, sent, invoked, transport_failed>>

decoderVars == <<bodies, decoded>>

delegationVars == <<client_parameters, task, parent_messages, execute_result>>

registryVars == <<files, available_functions, tools_registry, tool_groups, initialized,
                  agents_config, registrations, requested_groups, call>>

vars == <<chatVars, decoderVars, delegationVars, sub_runs, registryVars>>

(***************************************************************************)
(* Bounds of the model.                                                    *)
(***************************************************************************)
MaxIterations == 2   \* max_iterations ranges over 0..MaxIterations
MaxToolCalls == 2    \* tool calls the model server issues over one run
MaxFrames == 2       \* frames of one streamed response
MaxGroupNames == 2   \* group names in one call of get_tools_by_groups
MaxRegistrations == 2  \* registrations by @tool after the import
MaxOperand == 4      \* num1 and num2 of a calculate call range over 0..MaxOperand

(***************************************************************************)
(* Values.                                                                 *)
(***************************************************************************)
None == "<None>"      \* Python's None
NoId == "<no id>"     \* a tool call without an "id" key
Absent == "<absent>"  \* a key that a stream fragment does not carry
NoIndex == -1         \* a stream fragment without an "index" key

FinalText == "done."
Question == "q"

UserMessage(text) ==
    [role |-> "user", content |-> text, reasoning_content |-> None,
     tool_calls |-> <<>>, tool_call_id |-> None, name |-> None]

AssistantMessage(content, reasoning, calls) ==
    [role |-> "assistant", content |-> content, reasoning_content |-> reasoning,
     tool_calls |-> calls, tool_call_id |-> None, name |-> None]

ToolMessage(tool_call_id, function_name, content) ==
    [role |-> "tool", content |-> content, reasoning_content |-> None,
     tool_calls |-> <<>>, tool_call_id |-> tool_call_id, name |-> function_name]

(***************************************************************************)
(* Python values the tools compute with, tagged by their type.             *)
(***************************************************************************)
PyInt(n) == [t |-> "int", v |-> n]
PyStr(s) == [t |-> "str", v |-> s]
PyFloat(num, den) == [t |-> "float", v |-> <<num, den>>]

Digits == <<"0", "1", "2", "3", "4", "5", "6", "7", "8", "9">>

RECURSIVE NatStr(_)
NatStr(n) == IF n < 10 THEN Digits[n + 1] ELSE NatStr(n \div 10) \o Digits[(n % 10) + 1]

IntStr(n) == IF n < 0 THEN "-" \o NatStr(-n) ELSE NatStr(n)

\* The digits of rem / den after the decimal point, at most `places` of them.
RECURSIVE Fraction(_, _, _)
Fraction(rem, den, places) ==
    IF rem = 0 \/ places = 0 THEN ""
    ELSE Digits[((rem * 10) \div den) + 1] \o Fraction((rem * 10) % den, den, places - 1)

\* repr of the float num / den for num >= 0 and den > 0: the decimal expansion,
\* which repr prints in full where it ends within 16 places; a longer expansion
\* is cut there.
FloatStr(num, den) ==
    IF num % den = 0 THEN NatStr(num \div den) \o ".0"
    ELSE NatStr(num \div den) \o "." \o Fraction(num % den, den, 16)

\* str(value) of _execute_function: a string is itself, an integer its decimal
\* form, a float its repr.
str(value) ==
    CASE value.t = "str" -> value.v
      [] value.t = "int" -> IntStr(value.v)
      [] value.t = "float" -> FloatStr(value.v[1], value.v[2])

(***************************************************************************)
(* Argument texts the model server may put in a tool call, and json.loads  *)
(* of each.                                                                *)
(***************************************************************************)
ARGS_ADD == "{\"operation\": \"add\", \"num1\": 1, \"num2\": 2}"
ARGS_ADD_STR == "{\"operation\": \"add\", \"num1\": \"1\", \"num2\": 2}"
ARGS_KNOWN_AGENT == "{\"agent_type\": \"math_agent\", \"task_description\": \"t\"}"
ARGS_GHOST_AGENT == "{\"agent_type\": \"ghost\", \"task_description\": \"t\"}"
ARGS_TRUNCATED == "{\"operation\": "
ARGS_LIST == "[1, 2]"

\* The arguments of calculate calls with numeric operands: operation, num1, num2.
Operations == {"add", "subtract", "multiply", "divide", "power"}

CalculateCalls == Operations \X (0..MaxOperand) \X (0..MaxOperand)

\* The argument text of a calculate call.
CalculateArguments(c) ==
    "{\"operation\": \"" \o c[1] \o "\", \"num1\": " \o IntStr(c[2])
    \o ", \"num2\": " \o IntStr(c[3]) \o "}"

\* json.loads of the argument texts of CalculateCalls.
CalculateTexts ==
    [text \in {CalculateArguments(c) : c \in CalculateCalls} |->
        LET c == CHOOSE d \in CalculateCalls : CalculateArguments(d) = text
        IN  [operation |-> PyStr(c[1]), num1 |-> PyInt(c[2]), num2 |-> PyInt(c[3])]]

\* json.loads(function_args_str): kind "error" is json.JSONDecodeError.
json_loads(text) ==
    CASE text \in DOMAIN CalculateTexts -> [kind |-> "dict", val |-> CalculateTexts[text]]
      [] text = ARGS_ADD ->
           [kind |-> "dict",
            val |-> [operation |-> PyStr("add"), num1 |-> PyInt(1), num2 |-> PyInt(2)]]
      [] text = ARGS_ADD_STR ->
           [kind |-> "dict",
            val |-> [operation |-> PyStr("add"), num1 |-> PyStr("1"), num2 |-> PyInt(2)]]
      [] text = ARGS_KNOWN_AGENT ->
           [kind |-> "dict",
            val |-> [agent_type |-> PyStr("math_agent"), task_description |-> PyStr("t")]]
      [] text = ARGS_GHOST_AGENT ->
           [kind |-> "dict",
            val |-> [agent_type |-> PyStr("ghost"), task_description |-> PyStr("t")]]
      [] text = ARGS_LIST -> [kind |-> "list", val |-> <<PyInt(1), PyInt(2)>>]
      [] OTHER -> [kind |-> "error", val |-> <<>>]

(***************************************************************************)
(* The tools (src/src/tools/implementations.py).  A call yields a set of   *)
(* outcomes [raised, value, started]: raised names the exception that      *)
(* leaves the call, or is None and value is what the tool returned;        *)
(* started counts the delegated runs the call started.                     *)
(***************************************************************************)
Returned(value) == [raised |-> None, value |-> value, started |-> 0]
Raised(exception) == [raised |-> exception, value |-> PyStr(""), started |-> 0]

DIVISION_BY_ZERO_TEXT == "error: division by zero"
UNSUPPORTED_OPERATION_TEXT == "error: unsupported operation"

\* A calculate that divides without testing the divisor.
calculate_unguarded(a) ==
    IF a.operation.v = "divide" /\ a.num2.v = 0 THEN {Raised("ZeroDivisionError")}
    ELSE IF a.operation.v = "multiply" /\ a.num1.t = "int" /\ a.num2.t = "int"
    THEN {Returned(PyInt(a.num1.v * a.num2.v))}
    ELSE {Returned(PyStr(UNSUPPORTED_OPERATION_TEXT))}

\* calculate(operation, num1, num2)
calculate(a) ==
    LET op == a.operation
        x == a.num1
        y == a.num2
        ints == x.t = "int" /\ y.t = "int"
    IN  IF op.t # "str" \/ op.v \notin {"add", "subtract", "multiply", "divide"}
        THEN {Returned(PyStr(UNSUPPORTED_OPERATION_TEXT))}
        ELSE CASE op.v = "add" ->
                    IF ints THEN {Returned(PyInt(x.v + y.v))}
                    ELSE IF x.t = "str" /\ y.t = "str" THEN {Returned(PyStr(x.v \o y.v))}
                    ELSE {Raised("TypeError")}
               [] op.v = "subtract" ->
                    IF ints THEN {Returned(PyInt(x.v - y.v))} ELSE {Raised("TypeError")}
               [] op.v = "multiply" ->
                    IF ints THEN {Returned(PyInt(x.v * y.v))} ELSE {Raised("TypeError")}
               [] op.v = "divide" ->
                    IF ~ints THEN {Raised("TypeError")}
                    ELSE IF y.v = 0 THEN {Returned(PyStr(DIVISION_BY_ZERO_TEXT))}
                    ELSE {Returned(PyFloat(x.v, y.v))}

\* The agent types of the profile document config/agents.yaml.
AgentTypes == <<"math_agent", "time_agent">>

\* list(self.agents_config.keys()): the agent types of the loaded profiles.
get_available_agents == [i \in 1..Len(agents_config) |-> agents_config[i].agent_type]

RECURSIVE Join(_, _)
Join(sep, names) ==
    IF names = <<>> THEN ""
    ELSE IF Len(names) = 1 THEN names[1]
    ELSE names[1] \o sep \o Join(sep, Tail(names))

InSeq(x, s) == \E i \in 1..Len(s) : s[i] = x

Range(list) == {list[i] : i \in 1..Len(list)}

\* agent_config.get("name", agent_type) of the profile of a known agent type.
agent_name(agent_type) == "name of " \o agent_type

\* The keyword arguments execute constructs its ChatClient with.
ExecuteKeywords == {"api_url", "model", "task_name", "api_key"}

\* ChatClient(**keywords): TypeError for a keyword that __init__ does not take.
ChatClient(parameters, keywords) ==
    IF keywords \subseteq parameters THEN "constructed" ELSE "TypeError"

\* The dictionaries execute returns; a key a dictionary lacks is Absent.
ExecuteResult(success, res, error, agent_type, name, task_description) ==
    [success |-> success, result |-> res, error |-> error, agent_type |-> agent_type,
     agent_name |-> name, task_description |-> task_description]

UNKNOWN_AGENT_TYPE_TEXT == "unknown agent type: "
AVAILABLE_AGENTS_TEXT == ". available agents: "

\* An execute whose error text does not list the agent types.
UnknownAgentUnlisted(agent_type, task_description) ==
    ExecuteResult(FALSE, Absent, UNKNOWN_AGENT_TYPE_TEXT \o agent_type,
                  agent_type, Absent, task_description)

\* execute for an agent type that is not in agents_config.
UnknownAgent(agent_type, task_description) ==
    ExecuteResult(FALSE, Absent,
                  UNKNOWN_AGENT_TYPE_TEXT \o agent_type \o AVAILABLE_AGENTS_TEXT
                      \o Join(", ", get_available_agents),
                  agent_type, Absent, task_description)

\* How a call of chat ends: it returns a value or an exception leaves it.
ChatReturned(value) == [raised |-> None, value |-> value]
ChatRaised(exception) == [raised |-> exception, value |-> None]

\* The ends a call of chat can have: the final text, None, or an exception.
ChatOutcomes ==
    {ChatReturned(FinalText), ChatReturned(None), ChatRaised("TypeError")}

\* str(e) of the exception that left chat.
ExceptionText(exception) == "message of " \o exception

\* The try block of execute: whatever chat returns is reported with success
\* True, an exception with success False.
ExecuteTry(outcome, agent_type, task_description) ==
    IF outcome.raised = None
    THEN ExecuteResult(TRUE, outcome.value, Absent, agent_type, agent_name(agent_type),
                       task_description)
    ELSE ExecuteResult(FALSE, Absent, ExceptionText(outcome.raised), agent_type,
                       agent_name(agent_type), task_description)

\* SubTaskExecutor.execute as a tool sees it: an unknown agent type is an error
\* result; for a known one the ChatClient is constructed, outside the try block,
\* with the keywords of ExecuteKeywords, and then chat is run.
execute(agent_type, task_description) ==
    IF ~InSeq(agent_type, get_available_agents)
    THEN {Returned(UnknownAgent(agent_type, task_description))}
    ELSE IF ChatClient(client_parameters, ExecuteKeywords) # "constructed"
    THEN {Raised(ChatClient(client_parameters, ExecuteKeywords))}
    ELSE {[Returned(ExecuteTry(o, agent_type, task_description)) EXCEPT !.started = 1]
            : o \in ChatOutcomes}

JsonString(text) == "\"" \o text \o "\""

\* json.dumps of a result of chat: a text or None.
JsonValue(value) == IF value = None THEN "null" ELSE JsonString(value)

\* delegate_task after execute returned: the serialized payload.
DelegatePayload(res, agent_type, task_description) ==
    LET agent == IF res.agent_name # Absent THEN res.agent_name ELSE agent_type
    IN  IF res.success
        THEN "{\"status\": \"success\", \"agent\": " \o JsonString(agent)
             \o ", \"result\": " \o JsonValue(res.result)
             \o ", \"task\": " \o JsonString(task_description) \o "}"
        ELSE "{\"status\": \"error\", \"agent\": " \o JsonString(agent)
             \o ", \"error\": " \o JsonString(res.error)
             \o ", \"task\": " \o JsonString(task_description) \o "}"

\* delegate_task(agent_type, task_description)
delegate_task(a) ==
    {IF r.raised # None THEN r
     ELSE [r EXCEPT !.value = PyStr(DelegatePayload(r.value, a.agent_type.v,
                                                     a.task_description.v))]
       : r \in execute(a.agent_type.v, a.task_description.v)}

\* get_random_number(min_value=0, max_value=100): random.randint draws any value
\* of the range and raises ValueError on an empty range.
get_random_number(a) ==
    LET lo == IF "min_value" \in DOMAIN a THEN a.min_value ELSE PyInt(0)
        hi == IF "max_value" \in DOMAIN a THEN a.max_value ELSE PyInt(100)
    IN  IF lo.t # "int" \/ hi.t # "int" THEN {Raised("TypeError")}
        ELSE IF lo.v > hi.v THEN {Raised("ValueError")}
        ELSE {Returned(PyInt(n)) : n \in lo.v..hi.v}

\* get_current_time(): the clock reading, formatted.
ClockReadings == {"2025-01-01 12:00:00"}

get_current_time(a) == {Returned(PyStr(now)) : now \in ClockReadings}

\* The names under which a callable is registered.
AVAILABLE_FUNCTIONS == DOMAIN available_functions

\* inspect.Parameter.empty: the default of a parameter declared without one.
Empty == [t |-> "empty", v |-> ""]

\* None as a declared default.
PyNone == [t |-> "NoneType", v |-> "None"]

Parameter(name, annotation, default) ==
    [name |-> name, annotation |-> annotation, default |-> default]

\* inspect.signature(func).parameters of the decorated functions, in
\* declaration order: those of implementations.py, search_items of
\* examples/tool_usage.py, and a function of one parameter.
Signature(func) ==
    CASE func = "calculate" ->
           <<Parameter("operation", "str", Empty), Parameter("num1", "float", Empty),
             Parameter("num2", "float", Empty)>>
      [] func = "delegate_task" ->
           <<Parameter("agent_type", "str", Empty),
             Parameter("task_description", "str", Empty)>>
      [] func = "get_random_number" ->
           <<Parameter("min_value", "int", PyInt(0)), Parameter("max_value", "int", PyInt(100))>>
      [] func = "get_current_time" -> <<>>
      [] func = "search_items" ->
           <<Parameter("query", "str", Empty), Parameter("max_results", "int", PyInt(10)),
             Parameter("category", "Optional[str]", PyNone)>>
      [] func = "calculate_v2" -> <<Parameter("expression", "str", Empty)>>

\* The parameters of each registered function, and those without a default.
Parameters(function_name) ==
    {Signature(function_name)[i].name : i \in 1..Len(Signature(function_name))}

RequiredParameters(function_name) ==
    {Signature(function_name)[i].name :
        i \in {k \in 1..Len(Signature(function_name)) :
                 Signature(function_name)[k].default = Empty}}

\* function_to_call(**function_args): the arguments must be a mapping whose keys
\* are parameters and include every parameter without a default, else TypeError.
function_to_call(function_name, function_args) ==
    IF \/ function_args.kind # "dict"
       \/ ~(DOMAIN function_args.val \subseteq Parameters(function_name))
       \/ ~(RequiredParameters(function_name) \subseteq DOMAIN function_args.val)
    THEN {Raised("TypeError")}
    ELSE CASE function_name = "calculate" -> calculate(function_args.val)
           [] function_name = "delegate_task" -> delegate_task(function_args.val)
           [] function_name = "get_random_number" -> get_random_number(function_args.val)
           [] function_name = "get_current_time" -> get_current_time(function_args.val)

(***************************************************************************)
(* The tool registry and the group table (src/src/tools/decorator.py,      *)
(* src/src/tools/groups.py) and the configuration files they and the       *)
(* SubTaskExecutor read.                                                   *)
(***************************************************************************)
\* The functions implementations.py defines, each named by its __name__.
ImportedFunctions == {"get_random_number", "get_current_time", "calculate", "delegate_task"}

\* Functions a program may decorate with @tool after the import.
OtherFunctions == {"search_items", "calculate_v2"}

\* _extract_function_description(func.__doc__)
Description(func) == "description of " \o func

\* tool_name = name if name else func.__name__
ToolName(name, func) == IF name # None THEN name ELSE func

\* _python_type_to_json_type: Optional[X] is taken as X, an unmapped type as
\* "string".
_python_type_to_json_type(py_type) ==
    CASE py_type = "int" -> "integer"
      [] py_type = "float" -> "number"
      [] py_type = "bool" -> "boolean"
      [] py_type = "Optional[int]" -> "integer"
      [] OTHER -> "string"

\* _extract_param_description(func.__doc__, param_name)
ParamDescription(param_name) == "description of " \o param_name

\* A test of the default by its truth value: None and 0 count as no default.
HasTruthyDefault(param) == param.default \notin {Empty, PyNone, PyInt(0)}

\* if param.default != inspect.Parameter.empty
HasDefault(param) == param.default # Empty

\* param_def, with the "default" key when the parameter has a default.
ParamDef(param) ==
    IF HasDefault(param)
    THEN [type |-> _python_type_to_json_type(param.annotation),
          description |-> ParamDescription(param.name),
          default |-> param.default]
    ELSE [type |-> _python_type_to_json_type(param.annotation),
          description |-> ParamDescription(param.name)]

\* The loop over sig.parameters.items(): required.append(param_name) for a
\* parameter without a default.
RECURSIVE Required(_)
Required(parameters) ==
    IF parameters = <<>> THEN <<>>
    ELSE (IF HasDefault(Head(parameters)) THEN <<>> ELSE <<Head(parameters).name>>)
         \o Required(Tail(parameters))

\* properties[param_name] = param_def
Properties(parameters) ==
    [n \in {parameters[i].name : i \in 1..Len(parameters)} |->
        ParamDef(CHOOSE param \in Range(parameters) : param.name = n)]

\* A definition that is named after the function instead of the tool name.
ToolDefinitionByFunctionName(tool_name, func) ==
    [type |-> "function",
     function |-> [name |-> func,
                   description |-> Description(func),
                   parameters |-> [type |-> "object",
                                   properties |-> Properties(Signature(func)),
                                   required |-> Required(Signature(func))]]]

\* The tool definition the decorator builds from the signature of func.
ToolDefinition(tool_name, func) ==
    [type |-> "function",
     function |-> [name |-> tool_name,
                   description |-> Description(func),
                   parameters |-> [type |-> "object",
                                   properties |-> Properties(Signature(func)),
                                   required |-> Required(Signature(func))]]]

\* A decorator that leaves a name that is already registered as it is.
RegisterFirstWins(table, tool_name, entry) ==
    IF tool_name \in DOMAIN table THEN table
    ELSE [n \in DOMAIN table \cup {tool_name} |-> IF n = tool_name THEN entry ELSE table[n]]

\* table[tool_name] = entry
Register(table, tool_name, entry) ==
    [n \in DOMAIN table \cup {tool_name} |-> IF n = tool_name THEN entry ELSE table[n]]

\* What is found at a path: no file, a YAML mapping, or a YAML document whose
\* root is not a mapping.
File(kind, val) == [kind |-> kind, val |-> val]
Missing == File("missing", <<>>)
NotADict == File("other", <<>>)

DEFAULT_CONFIG_PATH == "config/tool_groups.yaml"
AGENTS_CONFIG_PATH == "config/agents.yaml"
\* A config_path a caller passes to initialize_tool_groups.
OTHER_CONFIG_PATH == "config/other_groups.yaml"

\* _TOOL_GROUPS = {}
NoGroups == [g \in {} |-> <<>>]

\* Tool-group documents: the groups the entry points ask for, with a tool in
\* two groups, and a document that names a tool nobody registered.
ToolGroupsDocument ==
    [math |-> <<"calculate", "get_random_number">>,
     time |-> <<"get_current_time">>,
     coordinator |-> <<"delegate_task", "calculate">>]

OtherGroupsDocument ==
    [math |-> <<"calculate", "no_such_tool">>,
     coordinator |-> <<"calculate">>]

\* The profile of an agent type, as delegate_task's docstring describes it.
Profile(agent_type) ==
    [agent_type |-> agent_type,
     name |-> agent_name(agent_type),
     tool_groups |-> IF agent_type = "math_agent" THEN <<"math">> ELSE <<"time">>]

AgentsDocument == [i \in 1..Len(AgentTypes) |-> Profile(AgentTypes[i])]

\* The file systems a process may start in.
FileSystems ==
    {[p \in {DEFAULT_CONFIG_PATH, OTHER_CONFIG_PATH, AGENTS_CONFIG_PATH} |->
        CASE p = DEFAULT_CONFIG_PATH -> d
          [] p = OTHER_CONFIG_PATH -> o
          [] p = AGENTS_CONFIG_PATH -> a]
       : d \in {Missing, File("dict", ToolGroupsDocument)},
         o \in {NotADict, File("dict", OtherGroupsDocument)},
         a \in {Missing, File("dict", AgentsDocument)}}

\* A loader that takes a missing file for an empty table.
load_groups_or_empty(file) ==
    CASE file.kind = "missing" -> Returned(NoGroups)
      [] file.kind = "other" -> Raised("ValueError")
      [] file.kind = "dict" -> Returned(file.val)

\* load_groups_from_yaml(config_path), given what is at the path.
load_groups_from_yaml(file) ==
    CASE file.kind = "missing" -> Raised("FileNotFoundError")
      [] file.kind = "other" -> Raised("ValueError")
      [] file.kind = "dict" -> Returned(file.val)

\* load_tool_groups(groups_config): _TOOL_GROUPS = groups_config
load_tool_groups(groups_config) == groups_config

\* _load_agents_config(config_path), given what is at the path.
_load_agents_config(file) == IF file.kind = "dict" THEN file.val ELSE <<>>

\* Iterating a set visits its elements in some order.
Orderings(S) ==
    {o \in [1..Cardinality(S) -> S] : \A i, j \in 1..Cardinality(S) : o[i] = o[j] => i = j}

\* The second loop of get_tools_by_groups: the definitions of the names that
\* are in _TOOLS_REGISTRY, in the order the names are visited.
Definitions(tool_names) ==
    LET registered == SelectSeq(tool_names, LAMBDA n : n \in DOMAIN tools_registry)
    IN  [i \in 1..Len(registered) |-> tools_registry[registered[i]]]

\* The members of the requested groups, group after group.
RECURSIVE Members(_)
Members(group_names) ==
    IF group_names = <<>> THEN <<>>
    ELSE (IF Head(group_names) \in DOMAIN tool_groups THEN tool_groups[Head(group_names)]
          ELSE <<>>) \o Members(Tail(group_names))

\* A resolution that collects the names in a list instead of a set.
get_tools_by_groups_listwise(group_names) == {Returned(Definitions(Members(group_names)))}

\* A resolution that looks every name up without testing for it.
get_tools_by_groups_strict(group_names) ==
    IF \/ \E i \in 1..Len(group_names) : group_names[i] \notin DOMAIN tool_groups
       \/ \E n \in Range(Members(group_names)) : n \notin DOMAIN tools_registry
    THEN {Raised("KeyError")}
    ELSE {Returned(Definitions(o)) : o \in Orderings(Range(Members(group_names)))}

\* get_tools_by_groups(group_names): the names of the groups that are in
\* _TOOL_GROUPS are collected in a set, and the set is iterated.
get_tools_by_groups(group_names) ==
    {Returned(Definitions(o)) : o \in Orderings(Range(Members(group_names)))}

\* get_tools_for_groups of groups.py hands over to get_tools_by_groups.
get_tools_for_groups(group_names) == get_tools_by_groups(group_names)

\* self.agents_config[agent_type] of an agent type that is in agents_config.
AgentConfig(agent_type) ==
    agents_config[CHOOSE i \in 1..Len(agents_config) : agents_config[i].agent_type = agent_type]

\* execute: tools = get_tools_for_groups(agent_config.get("tool_groups", [])),
\* as the set of the names of the tools.
SubAgentTools(agent_type) ==
    {tools.value[i].function.name :
        i \in 1..Cardinality(Range(Members(AgentConfig(agent_type).tool_groups))
                               \cap DOMAIN tools_registry),
        tools \in get_tools_for_groups(AgentConfig(agent_type).tool_groups)}

(***************************************************************************)
(* ChatClient: the helpers of chat.                                        *)
(***************************************************************************)
\* _create_error_message: json.dumps({"error": error}) as the content.
_create_error_message(tool_call_id, function_name, error) ==
    ToolMessage(tool_call_id, function_name, "{\"error\": \"" \o error \o "\"}")

ARGUMENT_FORMAT_ERROR == "bad argument format"

FunctionNotFound(function_name) == "function " \o function_name \o " does not exist"

\* A fallback that also replaces an empty id: tool_call.get("id") or f"call_{iteration}"
ToolCallIdOrFallback(tool_call, iter) ==
    IF tool_call.id \in {NoId, ""} THEN "call_" \o ToString(iter) ELSE tool_call.id

\* tool_call.get("id", f"call_{iteration}")
ToolCallId(tool_call, iter) ==
    IF tool_call.id = NoId THEN "call_" \o ToString(iter) ELSE tool_call.id

\* An _execute_function that looks the function up without the membership test:
\* AVAILABLE_FUNCTIONS[function_name] raises KeyError for a missing name.
_execute_function_unchecked(function_name, function_args, tool_call_id) ==
    IF function_name \in AVAILABLE_FUNCTIONS
    THEN {IF o.raised # None
          THEN [o EXCEPT !.value = ToolMessage(tool_call_id, function_name, "")]
          ELSE [o EXCEPT !.value = ToolMessage(tool_call_id, function_name, str(o.value))]
            : o \in function_to_call(available_functions[function_name], function_args)}
    ELSE {[Raised("KeyError") EXCEPT !.value = ToolMessage(tool_call_id, function_name, "")]}

\* _execute_function: the outcomes of executing one call whose arguments parsed.
_execute_function(function_name, function_args, tool_call_id) ==
    IF function_name \in AVAILABLE_FUNCTIONS
    THEN {IF o.raised # None
          THEN [o EXCEPT !.value = ToolMessage(tool_call_id, function_name, "")]
          ELSE [o EXCEPT !.value = ToolMessage(tool_call_id, function_name, str(o.value))]
            : o \in function_to_call(available_functions[function_name], function_args)}
    ELSE {Returned(_create_error_message(tool_call_id, function_name,
                                         FunctionNotFound(function_name)))}

\* Whether _execute_function invokes a tool function for this call.
Invokes(function_name) == function_name \in AVAILABLE_FUNCTIONS

\* A loop body that lets the JSONDecodeError of the arguments escape.
ProcessOneUncaught(tool_call, iter) ==
    IF json_loads(tool_call.arguments).kind = "error"
    THEN {[raised |-> "JSONDecodeError", invoked |-> FALSE, started |-> 0,
           value |-> ToolMessage(ToolCallId(tool_call, iter), tool_call.name, "")]}
    ELSE {[raised |-> o.raised, invoked |-> Invokes(tool_call.name),
           started |-> o.started, value |-> o.value]
            : o \in _execute_function(tool_call.name, json_loads(tool_call.arguments),
                                      ToolCallId(tool_call, iter))}

\* The body of the for loop of _process_tool_calls for one tool call: the
\* outcomes [raised, value, invoked, started]; value is the tool message to append.
ProcessOne(tool_call, iter) ==
    LET function_name == tool_call.name
        tool_call_id == ToolCallId(tool_call, iter)
        function_args == json_loads(tool_call.arguments)
    IN  IF function_args.kind = "error"
        THEN {[raised |-> None, invoked |-> FALSE, started |-> 0,
               value |-> _create_error_message(tool_call_id, function_name,
                                               ARGUMENT_FORMAT_ERROR)]}
        ELSE {[raised |-> o.raised, invoked |-> Invokes(function_name),
               started |-> o.started, value |-> o.value]
                : o \in _execute_function(function_name, function_args, tool_call_id)}

\* A check that lets content take precedence over tool calls.
HasToolCallsOnly(message) == message.tool_calls # <<>> /\ message.content \in {"", None}

\* _has_tool_calls: "tool_calls" in message and message["tool_calls"]
_has_tool_calls(message) == message.tool_calls # <<>>

\* "content" in message and message["content"]
HasContent(message) == message.content \notin {"", None}

(***************************************************************************)
(* The environment: what the model server and the transport can answer.    *)
(***************************************************************************)
ToolCallIds == {NoId, "call_a"}

\* (function name, argument text) of the tool calls the model server may issue.
CallKinds ==
    {<<"calculate", ARGS_ADD>>, <<"calculate", ARGS_ADD_STR>>,
     <<"calculate", ARGS_TRUNCATED>>, <<"calculate", ARGS_LIST>>,
     <<"calculate", ARGS_GHOST_AGENT>>,
     <<"delegate_task", ARGS_GHOST_AGENT>>, <<"delegate_task", ARGS_KNOWN_AGENT>>,
     <<"no_such_tool", ARGS_ADD>>}

ToolCall(id, function_name, arguments) ==
    [id |-> id, name |-> function_name, arguments |-> arguments]

ToolCalls == {ToolCall(id, k[1], k[2]) : id \in ToolCallIds, k \in CallKinds}

Batches(n) == UNION {[1..k -> ToolCalls] : k \in 0..n}

Contents == {"", FinalText}

\* The results of _send_request: kind "none" is the None of a failed transport
\* call, "empty" a response body that is falsy ({}), "nochoices" one without
\* choices, "nomessage" a choice without a "message" key, "message" a choice
\* with its message.
NoMessage == AssistantMessage("", None, <<>>)

TransportFailure == [kind |-> "none", message |-> NoMessage]

AtomicResponses(n) ==
    {TransportFailure,
     [kind |-> "empty", message |-> NoMessage],
     [kind |-> "nochoices", message |-> NoMessage],
     [kind |-> "nomessage", message |-> NoMessage]}
    \cup {[kind |-> "message", message |-> AssistantMessage(c, None, b)]
            : c \in Contents, b \in Batches(n)}

(***************************************************************************)
(* The stream decoder (_send_stream_request).  A frame is one line of the  *)
(* response body:                                                          *)
(*   blank      an empty line                                              *)
(*   comment    a line that does not start with "data: "                   *)
(*   done       data: [DONE]                                               *)
(*   malformed  data that json.loads rejects                               *)
(*   badshape   data that is valid JSON of an unexpected shape, such as    *)
(*              {"choices": [null]}: reading the delta raises              *)
(*   nochoices  a chunk without choices                                    *)
(*   delta      a chunk with choices[0].delta                              *)
(*   error      the connection breaks while the body is read               *)
(***************************************************************************)
Frame(kind) ==
    [kind |-> kind, content |-> Absent, reasoning_content |-> Absent, tool_calls |-> <<>>]

ContentFrame(piece) == [Frame("delta") EXCEPT !.content = piece]

ReasoningFrame(piece) == [Frame("delta") EXCEPT !.reasoning_content = piece]

\* One element of delta["tool_calls"]; index may be NoIndex, the other keys Absent.
Fragment(index, id, function_name, arguments) ==
    [index |-> index, id |-> id, name |-> function_name, arguments |-> arguments]

ToolCallFrame(fragments) == [Frame("delta") EXCEPT !.tool_calls = fragments]

EmptyToolCall == ToolCall("", "", "")

\* while len(tool_calls_data) <= index: tool_calls_data.append({...})
RECURSIVE Grow(_, _)
Grow(tool_calls_data, index) ==
    IF Len(tool_calls_data) <= index
    THEN Grow(Append(tool_calls_data, EmptyToolCall), index)
    ELSE tool_calls_data

\* A loop body that assigns the arguments of a fragment instead of appending them.
ApplyFragmentReplacing(tool_calls_data, tool_call_delta) ==
    LET index == IF tool_call_delta.index = NoIndex THEN 0 ELSE tool_call_delta.index
        grown == Grow(tool_calls_data, index)
        old == grown[index + 1]
        new == [id |-> IF tool_call_delta.id # Absent THEN tool_call_delta.id ELSE old.id,
                name |-> IF tool_call_delta.name # Absent
                         THEN tool_call_delta.name ELSE old.name,
                arguments |-> IF tool_call_delta.arguments # Absent
                              THEN tool_call_delta.arguments
                              ELSE old.arguments]
    IN  [grown EXCEPT ![index + 1] = new]

\* The body of `for tool_call_delta in delta["tool_calls"]` for one fragment.
ApplyFragment(tool_calls_data, tool_call_delta) ==
    LET index == IF tool_call_delta.index = NoIndex THEN 0 ELSE tool_call_delta.index
        grown == Grow(tool_calls_data, index)
        old == grown[index + 1]
        new == [id |-> IF tool_call_delta.id # Absent THEN tool_call_delta.id ELSE old.id,
                name |-> IF tool_call_delta.name # Absent
                         THEN tool_call_delta.name ELSE old.name,
                arguments |-> IF tool_call_delta.arguments # Absent
                              THEN old.arguments \o tool_call_delta.arguments
                              ELSE old.arguments]
    IN  [grown EXCEPT ![index + 1] = new]

RECURSIVE ApplyFragments(_, _)
ApplyFragments(tool_calls_data, fragments) ==
    IF fragments = <<>> THEN tool_calls_data
    ELSE ApplyFragments(ApplyFragment(tool_calls_data, Head(fragments)), Tail(fragments))

\* The accumulators of _send_stream_request before the first line.
DecoderStart ==
    [status |-> "reading", full_content |-> "", full_reasoning_content |-> "",
     tool_calls_data |-> <<>>]

\* A decoder that keeps only the newest piece.
KeepLastPiece(full, piece) == piece

\* full_content += content_piece, full_reasoning_content += reasoning_piece
Accumulate(full, piece) == full \o piece

\* A decoder that stops reading at a line it cannot parse.
StopOnJSONDecodeError(acc) == [acc EXCEPT !.status = "done"]

\* except json.JSONDecodeError: log and continue with the next line.
OnJSONDecodeError(acc) == acc

\* A decoder that reads on after the end marker.
ContinueOnDone(acc) == acc

\* if data_str.strip() == '[DONE]': break
OnDone(acc) == [acc EXCEPT !.status = "done"]

\* One pass of `for line in response.iter_lines()`.
DecodeFrame(acc, frame) ==
    IF acc.status # "reading" THEN acc
    ELSE CASE frame.kind \in {"blank", "comment", "nochoices"} -> acc
           [] frame.kind = "malformed" -> OnJSONDecodeError(acc)
           [] frame.kind = "done" -> OnDone(acc)
           [] frame.kind = "badshape" -> [acc EXCEPT !.status = "raised"]
           [] frame.kind = "error" -> [acc EXCEPT !.status = "failed"]
           [] frame.kind = "delta" ->
                [acc EXCEPT
                   !.full_reasoning_content =
                       IF frame.reasoning_content \notin {Absent, ""}
                       THEN Accumulate(@, frame.reasoning_content) ELSE @,
                   !.full_content =
                       IF frame.content \notin {Absent, ""}
                       THEN Accumulate(@, frame.content) ELSE @,
                   !.tool_calls_data = ApplyFragments(@, frame.tool_calls)]

RECURSIVE DecodeFrames(_, _)
DecodeFrames(acc, frames) ==
    IF frames = <<>> THEN acc
    ELSE DecodeFrames(DecodeFrame(acc, Head(frames)), Tail(frames))

\* _send_stream_request on a response body: None when the transport fails, the
\* escaping exception when a frame has an unexpected shape, else the rebuilt
\* response with its single choice.
_send_stream_request(frames) ==
    LET acc == DecodeFrames(DecoderStart, frames)
    IN  CASE acc.status = "failed" -> TransportFailure
          [] acc.status = "raised" -> [kind |-> "raised", message |-> NoMessage]
          [] OTHER ->
               [kind |-> "message",
                message |-> AssistantMessage(
                    acc.full_content,
                    IF acc.full_reasoning_content # "" THEN acc.full_reasoning_content
                    ELSE None,
                    acc.tool_calls_data)]

ARGS_ADD_REST == "\"add\", \"num1\": 1, \"num2\": 2}"

\* The frames the model server may stream.
StreamFrames ==
    {Frame("blank"), Frame("done"), Frame("malformed"), Frame("badshape"), Frame("error"),
     ContentFrame(FinalText), ReasoningFrame("hm"),
     ToolCallFrame(<<Fragment(0, "call_a", "calculate", ARGS_TRUNCATED)>>),
     ToolCallFrame(<<Fragment(NoIndex, Absent, Absent, ARGS_ADD_REST)>>),
     ToolCallFrame(<<Fragment(0, Absent, "calculate", ARGS_ADD),
                     Fragment(1, Absent, "no_such_tool", ARGS_ADD)>>),
     ToolCallFrame(<<Fragment(1, "call_b", "delegate_task", ARGS_GHOST_AGENT)>>)}

StreamBodies == UNION {[1..k -> StreamFrames] : k \in 0..MaxFrames}

\* What _send_stream_request can return: the request itself fails, or a body is read.
StreamResponses == {TransportFailure} \cup {_send_stream_request(body) : body \in StreamBodies}

(***************************************************************************)
(* ChatClient.chat.                                                        *)
(***************************************************************************)
\* A chat that works on the caller's list itself.
ListAlias(ref) == ref

\* messages.copy(): a new list object with the same elements.
ListCopy(ref) == "run"

\* A list whose append overwrites the last element.
ListOverwriteLast(list, message) ==
    IF list = <<>> THEN <<message>> ELSE [list EXCEPT ![Len(list)] = message]

\* list.append
ListAppend(list, message) == Append(list, message)

\* A loop that runs one pass too many.
LoopContinuesInclusive(iter, max) == iter <= max

\* for iteration in range(max_iterations)
LoopContinues(iter, max) == iter < max

\* A chat that reports exhaustion with a value of its own.
ExhaustedMarker == "<exhausted>"

\* The value of the `return None` after the loop.
ExhaustedResult == None

\* How control leaves a step of chat: return a value, continue with the next
\* iteration, dispatch the tool calls of the message, or raise.  append holds
\* the messages the step appended to current_messages.
Return(value, term, appended) ==
    [next |-> "return", value |-> value, terminal |-> term, append |-> appended]
Continue(appended) ==
    [next |-> "continue", value |-> None, terminal |-> "none", append |-> appended]
Dispatch(appended) ==
    [next |-> "dispatch", value |-> None, terminal |-> "none", append |-> appended]
Raise(exception, appended) ==
    [next |-> "raise", value |-> exception, terminal |-> "none", append |-> appended]

\* `if not result`
NotResult(r) == r.kind \in {"none", "empty"}

\* chat after `if not result`: _extract_message and the branch on the message.
HandleChoice(r) ==
    IF r.kind = "nochoices" THEN Return(None, "Failure", <<>>)
    ELSE IF r.kind = "nomessage" THEN Raise("KeyError", <<>>)
    ELSE LET message == r.message
         IN  IF _has_tool_calls(message) THEN Dispatch(<<message>>)
             ELSE IF HasContent(message)
             THEN Return(message.content, "Success", <<message>>)
             ELSE Return(None, "Failure", <<message>>)

\* A chat that goes on to the next request when the transport fails.
HandleResultRetry(r) ==
    IF NotResult(r) THEN Continue(<<>>) ELSE HandleChoice(r)

\* chat from `if not result` to the end of the loop body, tool dispatch aside.
HandleResult(r) ==
    IF NotResult(r) THEN Return(None, "Failure", <<>>) ELSE HandleChoice(r)

\* One pass of the for loop of _process_tool_calls, and the `continue` of chat
\* after the last one.
HandleToolCall(tool_calls, index, iter, outcome) ==
    IF outcome.raised # None THEN Raise(outcome.raised, <<>>)
    ELSE IF index < Len(tool_calls) THEN Dispatch(<<outcome.value>>)
    ELSE Continue(<<outcome.value>>)

RECURSIVE Extend(_, _)
Extend(list, appended) ==
    IF appended = <<>> THEN list
    ELSE Extend(ListAppend(list, Head(appended)), Tail(appended))

Conversation == lists[current_messages]

\* A counter that advances with every tool message appended.
NextIterationPerToolCall(c, iter) ==
    IF c.append # <<>> /\ c.append[1].role = "tool" THEN iter + 1 ELSE iter

\* `for iteration in range(max_iterations)`: the loop variable advances when
\* the loop body is left for the next pass, by `continue` or by its end.
NextIteration(c, iter) == IF c.next = "continue" THEN iter + 1 ELSE iter

\* The effect of a step of chat that leaves through control c.
Leave(c) ==
    /\ lists' = [lists EXCEPT ![current_messages] = Extend(@, c.append)]
    /\ pc' = CASE c.next = "return" -> "returned"
               [] c.next = "continue" -> "loop"
               [] c.next = "dispatch" -> "dispatch"
               [] c.next = "raise" -> "raised"
    /\ retval' = IF c.next = "return" THEN c.value ELSE retval
    /\ terminal' = IF c.next = "return" THEN c.terminal ELSE terminal
    /\ raised' = IF c.next = "raise" THEN c.value ELSE raised
    /\ iteration' = NextIteration(c, iteration)
    /\ call_index' = CASE c.next = "dispatch" -> call_index + 1
                       [] OTHER -> 0

\* Tool calls the model server has issued so far in this run.
RECURSIVE CountToolCalls(_)
CountToolCalls(list) ==
    IF list = <<>> THEN 0 ELSE Len(Head(list).tool_calls) + CountToolCalls(Tail(list))

CallsLeft == MaxToolCalls - CountToolCalls(SubSeq(Conversation, Len(messages0) + 1,
                                                  Len(Conversation)))

\* The keyword parameters of ChatClient.__init__.
ChatClientParameters == {"api_url", "model", "task_name"}

\* No delegation is being modelled: the run is a top-level one.
NoTask == [agent_type |-> None, task_description |-> None, tool_call_id |-> None]

\* No call of the registry or the executor has been made.
NoCall == [op |-> "none", arg |-> None, raised |-> None, value |-> None]

\* A call, its argument and how it ended.
Call(op, arg, outcome) ==
    [op |-> op, arg |-> arg, raised |-> outcome.raised, value |-> outcome.value]

\* The registry once src.tools is imported: the decorators of implementations.py
\* have registered its four functions.
Imported ==
    /\ available_functions = [n \in ImportedFunctions |-> n]
    /\ tools_registry = [n \in ImportedFunctions |-> ToolDefinition(n, n)]
    /\ registrations = <<>>

\* A process with its configuration files in place, after the entry point has
\* called initialize_tool_groups and the executor has loaded the profiles.
Started ==
    /\ Imported
    /\ files = [p \in {DEFAULT_CONFIG_PATH, OTHER_CONFIG_PATH, AGENTS_CONFIG_PATH} |->
                  CASE p = DEFAULT_CONFIG_PATH -> File("dict", ToolGroupsDocument)
                    [] p = OTHER_CONFIG_PATH -> Missing
                    [] p = AGENTS_CONFIG_PATH -> File("dict", AgentsDocument)]
    /\ tool_groups = load_tool_groups(ToolGroupsDocument)
    /\ initialized = TRUE
    /\ agents_config = _load_agents_config(File("dict", AgentsDocument))
    /\ requested_groups = <<>>
    /\ call = NoCall

CallerMessages ==
    {<<UserMessage(Question)>>,
     <<UserMessage(Question), AssistantMessage(FinalText, None, <<>>), UserMessage(Question)>>}

Init ==
    /\ \E m \in CallerMessages :
         /\ lists = [caller |-> m, run |-> <<>>]
         /\ messages0 = m
    /\ current_messages = None
    /\ stream \in BOOLEAN
    /\ max_iterations \in 0..MaxIterations
    /\ iteration = 0
    /\ pc = "start"
    /\ result = [kind |-> "unset", message |-> NoMessage]
    /\ call_index = 0
    /\ retval = None
    /\ terminal = "none"
    /\ raised = None
    /\ sent = <<>>
    /\ invoked = <<>>
    /\ transport_failed = FALSE
    /\ bodies = <<>>
    /\ decoded = <<>>
    /\ client_parameters = ChatClientParameters
    /\ task = NoTask
    /\ parent_messages = <<>>
    /\ execute_result = None
    /\ sub_runs = 0
    /\ Started

\* current_messages = messages.copy()
Chat ==
    /\ pc = "start"
    /\ current_messages' = ListCopy("caller")
    /\ lists' = [lists EXCEPT ![ListCopy("caller")] = lists["caller"]]
    /\ pc' = "loop"
    /\ UNCHANGED <<messages0, stream, max_iterations, iteration, result, call_index,
                   retval, terminal, raised, sent, invoked, transport_failed>>
    /\ UNCHANGED <<decoderVars, delegationVars, sub_runs, registryVars>>

\* A payload that leaves the tool messages out of the conversation.
_build_payload_without_tool_messages(messages, strm) ==
    [messages |-> SelectSeq(messages, LAMBDA m : m.role # "tool"), stream |-> strm]

\* _build_payload: "messages": messages puts the list itself into the payload,
\* which is serialized when the request is sent.
_build_payload(messages, strm) == [messages |-> messages, stream |-> strm]

\* _build_payload and _send_request: the payload embeds current_messages.
SendRequest ==
    /\ pc = "loop"
    /\ LoopContinues(iteration, max_iterations)
    /\ ~stream
    /\ \E r \in AtomicResponses(CallsLeft) :
         /\ result' = r
         /\ transport_failed' = (transport_failed \/ r = TransportFailure)
    /\ sent' = Append(sent, _build_payload(Conversation, stream).messages)
    /\ pc' = "decode"
    /\ UNCHANGED <<lists, current_messages, messages0, stream, max_iterations, iteration,
                   call_index, retval, terminal, raised, invoked>>
    /\ UNCHANGED <<decoderVars, delegationVars, sub_runs, registryVars>>

\* _build_payload and _send_stream_request.
SendStreamRequest ==
    /\ pc = "loop"
    /\ LoopContinues(iteration, max_iterations)
    /\ stream
    /\ \E r \in StreamResponses :
         /\ Len(r.message.tool_calls) <= CallsLeft
         /\ result' = r
         /\ transport_failed' = (transport_failed \/ r = TransportFailure)
         /\ pc' = IF r.kind = "raised" THEN "raised" ELSE "decode"
         /\ raised' = IF r.kind = "raised" THEN "AttributeError" ELSE raised
    /\ sent' = Append(sent, _build_payload(Conversation, stream).messages)
    /\ UNCHANGED <<lists, current_messages, messages0, stream, max_iterations, iteration,
                   call_index, retval, terminal, invoked>>
    /\ UNCHANGED <<decoderVars, delegationVars, sub_runs, registryVars>>

\* The loop ends: `return None` after "max iterations reached".
Exhausted ==
    /\ pc = "loop"
    /\ ~LoopContinues(iteration, max_iterations)
    /\ pc' = "returned"
    /\ retval' = ExhaustedResult
    /\ terminal' = "Exhausted"
    /\ UNCHANGED <<lists, current_messages, messages0, stream, max_iterations, iteration,
                   result, call_index, raised, sent, invoked, transport_failed>>
    /\ UNCHANGED <<decoderVars, delegationVars, sub_runs, registryVars>>

\* chat from `if not result` to the branch on the decoded message.
HandleResponse ==
    /\ pc = "decode"
    /\ Leave(HandleResult(result))
    /\ UNCHANGED <<current_messages, messages0, stream, max_iterations, result, sent,
                   invoked, transport_failed>>
    /\ UNCHANGED <<decoderVars, delegationVars, sub_runs, registryVars>>

\* A loop that takes the tool calls from the last to the first.
ReversedToolCall(tool_calls, index) == tool_calls[Len(tool_calls) + 1 - index]

\* `for tool_call in tool_calls`: the call the loop takes in its index-th pass.
ForToolCall(tool_calls, index) == tool_calls[index]

\* _process_tool_calls: one tool call of the batch.
ProcessToolCall ==
    /\ pc = "dispatch"
    /\ LET tool_calls == result.message.tool_calls
           tool_call == ForToolCall(tool_calls, call_index)
       IN  \E o \in ProcessOne(tool_call, iteration) :
             /\ Leave(HandleToolCall(tool_calls, call_index, iteration, o))
             /\ invoked' = IF o.invoked
                           THEN Append(invoked, <<iteration, call_index, tool_call.name>>)
                           ELSE invoked
             /\ sub_runs' = sub_runs + o.started
    /\ UNCHANGED <<current_messages, messages0, stream, max_iterations, result, sent,
                   transport_failed>>
    /\ UNCHANGED <<decoderVars, delegationVars, registryVars>>

Next ==
    \/ Chat
    \/ SendRequest
    \/ SendStreamRequest
    \/ Exhausted
    \/ HandleResponse
    \/ ProcessToolCall

Spec == Init /\ [][Next]_vars

FairSpec == Spec /\ WF_vars(Next)

(***************************************************************************)
(* The stream decoder on its own: _send_stream_request is applied to two   *)
(* response bodies that deliver the same fragments in different frames.    *)
(***************************************************************************)
\* The frames of the bodies: content and reasoning in pieces, a line that
\* json.loads rejects, the end marker, and tool calls whole and in fragments.
DecoderFrames ==
    {ContentFrame("do"), ContentFrame("ne."), ContentFrame(FinalText),
     ReasoningFrame("h"), ReasoningFrame("m"), ReasoningFrame("hm"),
     Frame("malformed"), Frame("done"),
     ToolCallFrame(<<Fragment(NoIndex, Absent, "calculate", ARGS_ADD)>>),
     ToolCallFrame(<<Fragment(0, "call_a", "calculate", ARGS_TRUNCATED)>>),
     ToolCallFrame(<<Fragment(0, Absent, Absent, ARGS_ADD_REST)>>)}

DecoderBodies == UNION {[1..k -> DecoderFrames] : k \in 0..MaxFrames}

\* The frames of a body up to its end marker.
RECURSIVE UpToDone(_)
UpToDone(body) ==
    IF body = <<>> \/ Head(body).kind = "done" THEN <<>>
    ELSE <<Head(body)>> \o UpToDone(Tail(body))

\* The content fragments of a body concatenated in arrival order.
RECURSIVE ContentText(_)
ContentText(body) ==
    IF body = <<>> THEN ""
    ELSE (IF Head(body).content = Absent THEN "" ELSE Head(body).content)
         \o ContentText(Tail(body))

\* The reasoning fragments of a body concatenated in arrival order.
RECURSIVE ReasoningText(_)
ReasoningText(body) ==
    IF body = <<>> THEN ""
    ELSE (IF Head(body).reasoning_content = Absent THEN ""
          ELSE Head(body).reasoning_content)
         \o ReasoningText(Tail(body))

\* The tool call fragments of a body in arrival order.
RECURSIVE ToolFragments(_)
ToolFragments(body) ==
    IF body = <<>> THEN <<>> ELSE Head(body).tool_calls \o ToolFragments(Tail(body))

\* Two bodies deliver the same texts and the same tool call fragments.
SameDelivery(a, b) ==
    /\ ContentText(UpToDone(a)) = ContentText(UpToDone(b))
    /\ ReasoningText(UpToDone(a)) = ReasoningText(UpToDone(b))
    /\ ToolFragments(UpToDone(a)) = ToolFragments(UpToDone(b))

NotDecoded == [kind |-> "unset", message |-> NoMessage]

\* The variables of chat while no run is modelled.
ChatAt(position) ==
    /\ lists = [caller |-> <<>>, run |-> <<>>]
    /\ messages0 = <<>>
    /\ current_messages = None
    /\ stream = FALSE
    /\ max_iterations = 0
    /\ iteration = 0
    /\ pc = position
    /\ result = NotDecoded
    /\ call_index = 0
    /\ retval = None
    /\ terminal = "none"
    /\ raised = None
    /\ sent = <<>>
    /\ invoked = <<>>
    /\ transport_failed = FALSE

StreamInit ==
    /\ \E a \in DecoderBodies :
         \E b \in {c \in DecoderBodies : SameDelivery(a, c)} : bodies = <<a, b>>
    /\ decoded = <<NotDecoded, NotDecoded>>
    /\ ChatAt("decoder")
    /\ client_parameters = ChatClientParameters
    /\ task = NoTask
    /\ parent_messages = <<>>
    /\ execute_result = None
    /\ sub_runs = 0
    /\ Started

\* _send_stream_request reads one of the bodies.
DecodeBody ==
    /\ pc = "decoder"
    /\ \E d \in DOMAIN bodies :
         /\ decoded[d] = NotDecoded
         /\ decoded' = [decoded EXCEPT ![d] = _send_stream_request(bodies[d])]
    /\ UNCHANGED <<chatVars, bodies, delegationVars, sub_runs, registryVars>>

StreamNext == DecodeBody

StreamSpec == StreamInit /\ [][StreamNext]_vars

(***************************************************************************)
(* The stream decoder on one response body whose frames address several    *)
(* tool calls by index, with frames before and after the end marker.       *)
(***************************************************************************)
ReassemblyFrames ==
    {ContentFrame(FinalText), Frame("malformed"), Frame("badshape"), Frame("done"),
     ToolCallFrame(<<Fragment(0, "call_a", "calculate", ARGS_TRUNCATED)>>),
     ToolCallFrame(<<Fragment(NoIndex, Absent, Absent, ARGS_ADD_REST)>>),
     ToolCallFrame(<<Fragment(1, "call_b", "delegate_task", ARGS_GHOST_AGENT)>>),
     ToolCallFrame(<<Fragment(0, "call_c", Absent, Absent),
                     Fragment(1, Absent, "calculate", Absent)>>),
     ToolCallFrame(<<Fragment(2, Absent, "no_such_tool", Absent)>>)}

ReassemblyBodies == UNION {[1..k -> ReassemblyFrames] : k \in 0..MaxFrames}

ReassemblyInit ==
    /\ \E a \in ReassemblyBodies : bodies = <<a>>
    /\ decoded = <<NotDecoded>>
    /\ ChatAt("decoder")
    /\ client_parameters = ChatClientParameters
    /\ task = NoTask
    /\ parent_messages = <<>>
    /\ execute_result = None
    /\ sub_runs = 0
    /\ Started

ReassemblyNext == DecodeBody

ReassemblySpec == ReassemblyInit /\ [][ReassemblyNext]_vars

(***************************************************************************)
(* One delegation: the delegating run has reached function_to_call for a   *)
(* delegate_task call; delegate_task calls SubTaskExecutor.execute, which  *)
(* runs the sub-agent's chat, and the delegating run appends the answer.   *)
(* The variables of chat describe the run of the sub-agent.                *)
(*                                                                         *)
(* With the ChatClient.__init__ of src (ChatClientParameters) the          *)
(* constructor call of execute raises TypeError and no delegated run       *)
(* starts: that is the behaviour under Spec.  This specification describes *)
(* execute from its try block on, for a ChatClient that takes the api_key  *)
(* keyword execute passes.                                                 *)
(***************************************************************************)
\* The conversations of the delegating run: the last message carries the
\* delegate_task call.
DelegatingMessage(arguments) ==
    AssistantMessage("", None, <<ToolCall("call_a", "delegate_task", arguments)>>)

ParentMessages(arguments) ==
    {<<UserMessage(Question), DelegatingMessage(arguments)>>,
     <<UserMessage(Question),
       AssistantMessage("", None, <<ToolCall("call_b", "calculate", ARGS_ADD)>>),
       ToolMessage("call_b", "calculate", "3"),
       DelegatingMessage(arguments)>>}

\* An execute that hands the delegating conversation down to the sub-agent.
SubTaskMessagesWithParent(parent, task_description) ==
    Append(parent, UserMessage(task_description))

\* The conversation execute builds for the sub-agent: one user message with the
\* task description.
SubTaskMessages(parent, task_description) == <<UserMessage(task_description)>>

DelegatedInit ==
    /\ \E arguments \in {ARGS_KNOWN_AGENT, ARGS_GHOST_AGENT} :
         /\ task = [agent_type |-> json_loads(arguments).val.agent_type.v,
                    task_description |-> json_loads(arguments).val.task_description.v,
                    tool_call_id |-> "call_a"]
         /\ parent_messages \in ParentMessages(arguments)
    /\ client_parameters = ChatClientParameters \cup {"api_key"}
    /\ execute_result = None
    /\ sub_runs = 0
    /\ ChatAt("execute")
    /\ bodies = <<>>
    /\ decoded = <<>>
    /\ Started

\* execute up to the try block: the lookup of the agent type, the messages of
\* the sub-task, the ChatClient, and the call of client.chat with stream=False.
Execute ==
    /\ pc = "execute"
    /\ IF ~InSeq(task.agent_type, get_available_agents)
       THEN /\ execute_result' = UnknownAgent(task.agent_type, task.task_description)
            /\ pc' = "executed"
            /\ UNCHANGED <<lists, messages0, max_iterations, raised, sub_runs>>
       ELSE IF ChatClient(client_parameters, ExecuteKeywords) # "constructed"
       THEN /\ pc' = "raised"
            /\ raised' = ChatClient(client_parameters, ExecuteKeywords)
            /\ UNCHANGED <<lists, messages0, max_iterations, execute_result, sub_runs>>
       ELSE /\ lists' = [lists EXCEPT
                            !["caller"] = SubTaskMessages(parent_messages,
                                                          task.task_description)]
            /\ messages0' = SubTaskMessages(parent_messages, task.task_description)
            /\ max_iterations' \in 0..MaxIterations
            /\ pc' = "start"
            /\ sub_runs' = sub_runs + 1
            /\ UNCHANGED <<raised, execute_result>>
    /\ UNCHANGED <<current_messages, stream, iteration, result, call_index, retval,
                   terminal, sent, invoked, transport_failed>>
    /\ UNCHANGED <<decoderVars, client_parameters, task, parent_messages, registryVars>>

\* An execute that does not wait for the run it started.
ClientChatStarted == pc \in {"loop", "returned"}

\* result = client.chat(...): execute goes on when the call has returned.
ClientChatReturned == pc = "returned"

\* The try block of execute after client.chat returned.
ExecuteReturn ==
    /\ ClientChatReturned
    /\ execute_result' = ExecuteTry(ChatReturned(retval), task.agent_type,
                                    task.task_description)
    /\ pc' = "executed"
    /\ UNCHANGED <<lists, current_messages, messages0, stream, max_iterations, iteration,
                   result, call_index, retval, terminal, raised, sent, invoked,
                   transport_failed>>
    /\ UNCHANGED <<decoderVars, client_parameters, task, parent_messages, sub_runs,
                   registryVars>>

\* The except block of execute: an exception left client.chat.
ExecuteExcept ==
    /\ pc = "raised"
    /\ sub_runs >= 1
    /\ execute_result' = ExecuteTry(ChatRaised(raised), task.agent_type,
                                    task.task_description)
    /\ pc' = "executed"
    /\ UNCHANGED <<lists, current_messages, messages0, stream, max_iterations, iteration,
                   result, call_index, retval, terminal, raised, sent, invoked,
                   transport_failed>>
    /\ UNCHANGED <<decoderVars, client_parameters, task, parent_messages, sub_runs,
                   registryVars>>

\* delegate_task formats what execute returned, and _execute_function and
\* _process_tool_calls of the delegating run append it as a tool message.
DelegateTaskReturn ==
    /\ pc = "executed"
    /\ parent_messages' =
           ListAppend(parent_messages,
                      ToolMessage(task.tool_call_id, "delegate_task",
                                  str(PyStr(DelegatePayload(execute_result, task.agent_type,
                                                            task.task_description)))))
    /\ pc' = "delegated"
    /\ UNCHANGED <<lists, current_messages, messages0, stream, max_iterations, iteration,
                   result, call_index, retval, terminal, raised, sent, invoked,
                   transport_failed>>
    /\ UNCHANGED <<decoderVars, client_parameters, task, execute_result, sub_runs,
                   registryVars>>

DelegatedNext ==
    \/ Execute
    \/ Chat
    \/ SendRequest
    \/ Exhausted
    \/ HandleResponse
    \/ ProcessToolCall
    \/ ExecuteReturn
    \/ ExecuteExcept
    \/ DelegateTaskReturn

DelegatedSpec == DelegatedInit /\ [][DelegatedNext]_vars

(***************************************************************************)
(* The registry on its own: a process that has imported src.tools          *)
(* registers further tools, initializes the group table from a path,       *)
(* resolves lists of group names and asks the executor for an agent.  The  *)
(* configuration files are as the process found them.                      *)
(***************************************************************************)
GroupNames == {"math", "coordinator", "ghost_group"}

GroupLists == UNION {[1..k -> GroupNames] : k \in 0..MaxGroupNames}

\* The (name, func) of the decorations: a function under its own name, and
\* functions under a name that is already registered.
Decorations == {<<None, "search_items">>, <<"calculate", "search_items">>, <<"calculate", "calculate_v2">>}

RegistryInit ==
    /\ Imported
    /\ files \in FileSystems
    /\ tool_groups = NoGroups
    /\ initialized = FALSE
    /\ agents_config = _load_agents_config(files[AGENTS_CONFIG_PATH])
    /\ requested_groups \in GroupLists
    /\ call = NoCall
    /\ ChatAt("registry")
    /\ bodies = <<>>
    /\ decoded = <<>>
    /\ client_parameters = ChatClientParameters
    /\ task = NoTask
    /\ parent_messages = <<>>
    /\ execute_result = None
    /\ sub_runs = 0

\* @tool(name)(func): the decorator registers func and its definition.
Tool ==
    /\ Len(registrations) < MaxRegistrations
    /\ \E decorated \in Decorations :
         LET name == decorated[1]
             func == decorated[2]
             tool_name == ToolName(name, func)
         IN  /\ available_functions' = Register(available_functions, tool_name, func)
             /\ tools_registry' = Register(tools_registry, tool_name,
                                           ToolDefinition(tool_name, func))
             /\ registrations' = Append(registrations, [name |-> tool_name, func |-> func])
             /\ call' = Call("tool", <<name, func>>, Returned(func))
    /\ UNCHANGED <<files, tool_groups, initialized, agents_config, requested_groups>>
    /\ UNCHANGED <<chatVars, decoderVars, delegationVars, sub_runs>>

\* initialize_tool_groups(config_path): load_groups_from_yaml, then
\* load_tool_groups unless the loader raised.
InitializeToolGroups ==
    /\ \E config_path \in {DEFAULT_CONFIG_PATH, OTHER_CONFIG_PATH} :
         LET groups_config == load_groups_from_yaml(files[config_path])
         IN  /\ call' = Call("initialize_tool_groups", config_path, groups_config)
             /\ IF groups_config.raised # None
                THEN UNCHANGED <<tool_groups, initialized>>
                ELSE /\ tool_groups' = load_tool_groups(groups_config.value)
                     /\ initialized' = TRUE
    /\ UNCHANGED <<files, available_functions, tools_registry, agents_config, registrations,
                   requested_groups>>
    /\ UNCHANGED <<chatVars, decoderVars, delegationVars, sub_runs>>

\* get_tools_for_groups(group_names)
GetToolsForGroups ==
    /\ \E tools \in get_tools_for_groups(requested_groups) :
         call' = Call("get_tools_for_groups", requested_groups, tools)
    /\ UNCHANGED <<files, available_functions, tools_registry, tool_groups, initialized,
                   agents_config, registrations, requested_groups>>
    /\ UNCHANGED <<chatVars, decoderVars, delegationVars, sub_runs>>

\* get_subtask_executor().execute(agent_type, task_description)
ExecutorExecute ==
    /\ \E agent_type \in Range(AgentTypes) \cup {"ghost"} :
         \E r \in execute(agent_type, "t") :
           /\ call' = Call("execute", agent_type, r)
           /\ sub_runs' = sub_runs + r.started
    /\ UNCHANGED <<files, available_functions, tools_registry, tool_groups, initialized,
                   agents_config, registrations, requested_groups>>
    /\ UNCHANGED <<chatVars, decoderVars, delegationVars>>

RegistryNext ==
    \/ Tool
    \/ InitializeToolGroups
    \/ GetToolsForGroups
    \/ ExecutorExecute

RegistrySpec == RegistryInit /\ [][RegistryNext]_vars

(***************************************************************************)
(* Dispatch on its own: a run has received one calculate call with numeric *)
(* operands and _process_tool_calls dispatches it.                         *)
(***************************************************************************)
DispatchInit ==
    /\ \E c \in CalculateCalls, id \in ToolCallIds :
         LET message == AssistantMessage("", None,
                                         <<ToolCall(id, "calculate", CalculateArguments(c))>>)
         IN  /\ result = [kind |-> "message", message |-> message]
             /\ lists = [caller |-> <<UserMessage(Question)>>,
                         run |-> <<UserMessage(Question), message>>]
    /\ messages0 = <<UserMessage(Question)>>
    /\ current_messages = ListCopy("caller")
    /\ stream = FALSE
    /\ max_iterations = 1
    /\ iteration = 0
    /\ pc = "dispatch"
    /\ call_index = 1
    /\ retval = None
    /\ terminal = "none"
    /\ raised = None
    /\ sent = <<<<UserMessage(Question)>>>>
    /\ invoked = <<>>
    /\ transport_failed = FALSE
    /\ bodies = <<>>
    /\ decoded = <<>>
    /\ client_parameters = ChatClientParameters
    /\ task = NoTask
    /\ parent_messages = <<>>
    /\ execute_result = None
    /\ sub_runs = 0
    /\ Started

DispatchNext == ProcessToolCall

DispatchSpec == DispatchInit /\ [][DispatchNext]_vars

(***************************************************************************)
(* Notions the properties share.                                           *)
(***************************************************************************)
IsPrefix(s, t) == Len(s) <= Len(t) /\ SubSeq(t, 1, Len(s)) = s

\* The positions of a conversation that the run appended.
RunPositions(conv) == (Len(messages0) + 1)..Len(conv)

\* The positions of the assistant messages with tool calls that the run appended.
BatchPositions(conv) ==
    {p \in RunPositions(conv) : conv[p].role = "assistant" /\ conv[p].tool_calls # <<>>}

\* The zero-based cycle in which the run appended the assistant message at p.
CycleOf(conv, p) ==
    Cardinality({q \in RunPositions(conv) : q < p /\ conv[q].role = "assistant"})

\* The id under which the i-th tool call of the message at p is to be answered:
\* its own id, or call_<cycle> when it has none.
AnswerId(conv, p, i) ==
    IF conv[p].tool_calls[i].id = NoId
    THEN "call_" \o ToString(CycleOf(conv, p))
    ELSE conv[p].tool_calls[i].id

\* The batch at p is the one _process_tool_calls is working on.
InDispatch(conv, p) == pc = "dispatch" /\ \A q \in RunPositions(conv) : q > p => conv[q].role = "tool"

(***************************************************************************)
(* C1: every dispatched assistant message with n >= 1 tool calls is        *)
(* followed by exactly n tool-role messages, the i-th carrying the id of   *)
(* the i-th call, whatever the outcome of each call.                       *)
(***************************************************************************)
BatchAnswered(conv, p) ==
    LET n == Len(conv[p].tool_calls)
    IN  /\ p + n <= Len(conv)
        /\ \A i \in 1..n : /\ conv[p + i].role = "tool"
                           /\ conv[p + i].tool_call_id = AnswerId(conv, p, i)
        /\ p + n < Len(conv) => conv[p + n + 1].role # "tool"

C1_EveryBatchAnswered ==
    pc # "start" =>
        \A p \in BatchPositions(Conversation) :
            InDispatch(Conversation, p) \/ BatchAnswered(Conversation, p)

(***************************************************************************)
(* C2: in every conversation sent to the model, each tool call of each     *)
(* assistant message the run appended is followed by exactly one tool-role *)
(* message whose tool_call_id matches it.  Stated for conversations in     *)
(* which the ids the model server gave are pairwise different, so that a   *)
(* second match can only come from the ids the client itself fills in.     *)
(***************************************************************************)
\* The tool calls (position, index) of a conversation that carry an id of the server.
ServerIds(conv) ==
    {<<p, i>> \in BatchPositions(conv) \X (1..MaxToolCalls) :
        i <= Len(conv[p].tool_calls) /\ conv[p].tool_calls[i].id \notin {NoId, ""}}

ServerIdsDistinct(conv) ==
    \A c, d \in ServerIds(conv) :
        c # d => conv[c[1]].tool_calls[c[2]].id # conv[d[1]].tool_calls[d[2]].id

\* The tool-role messages after p whose tool_call_id matches the i-th call at p.
Answers(conv, p, i) ==
    {q \in RunPositions(conv) :
        q > p /\ conv[q].role = "tool" /\ conv[q].tool_call_id = AnswerId(conv, p, i)}

ExactlyOneAnswer(conv) ==
    \A p \in BatchPositions(conv) :
        \A i \in 1..Len(conv[p].tool_calls) : Cardinality(Answers(conv, p, i)) = 1

C2_SentConversationsAnswered ==
    \A k \in 1..Len(sent) : ServerIdsDistinct(sent[k]) => ExactlyOneAnswer(sent[k])

(***************************************************************************)
(* C3: no fault escapes chat: the call ends with a return, never with an   *)
(* exception.                                                              *)
(***************************************************************************)
C3_NoFaultEscapes == pc # "raised" /\ raised = None

(***************************************************************************)
(* C4: after decoding an assistant message, a message with one or more     *)
(* tool calls sends the run to tool dispatch (also when it has content);   *)
(* otherwise non-empty content ends the run in Success returning exactly   *)
(* that content; otherwise the run ends in Failure returning no result.    *)
(***************************************************************************)
C4_TransitionRule ==
    [][(pc = "decode" /\ result.kind = "message" /\ pc' # "decode") =>
          IF Len(result.message.tool_calls) >= 1
          THEN pc' = "dispatch"
          ELSE IF result.message.content \notin {"", None}
          THEN pc' = "returned" /\ terminal' = "Success"
               /\ retval' = result.message.content
          ELSE pc' = "returned" /\ terminal' = "Failure" /\ retval' = None]_vars

C4_Witness ==
    /\ pc = "dispatch"
    /\ call_index = 1
    /\ result.message.content = FinalText
    /\ Len(result.message.tool_calls) >= 1

(***************************************************************************)
(* C5: a run never sends more than max_iterations requests, and a run in   *)
(* which every request was answered by a message with tool calls (and no   *)
(* transport call or tool failed) returns only after exactly               *)
(* max_iterations cycles, in Exhausted.                                    *)
(***************************************************************************)
EveryResponseHadToolCalls ==
    /\ ~transport_failed
    /\ Cardinality(BatchPositions(Conversation)) = Len(sent)

C5_BudgetExhaustion ==
    /\ Len(sent) <= max_iterations
    /\ iteration <= max_iterations
    /\ (pc = "returned" /\ EveryResponseHadToolCalls) =>
          /\ terminal = "Exhausted"
          /\ Len(sent) = max_iterations
          /\ iteration = max_iterations

C5_Witness ==
    /\ pc = "returned"
    /\ terminal = "Exhausted"
    /\ max_iterations >= 2
    /\ EveryResponseHadToolCalls
    /\ Len(sent) = max_iterations

C7_EventuallyTerminal == <>(pc = "returned")

(***************************************************************************)
(* C8: once a transport call has failed, the run sends no further request  *)
(* and executes no tool, and its next step is the return, in Failure with  *)
(* no result.                                                              *)
(***************************************************************************)
C8_FailureEndsRun ==
    [][transport_failed =>
          /\ sent' = sent
          /\ invoked' = invoked
          /\ pc' # pc => (pc' = "returned" /\ terminal' = "Failure" /\ retval' = None)]_vars

C8_Witness ==
    /\ transport_failed
    /\ pc = "returned"
    /\ terminal = "Failure"
    /\ Len(sent) >= 2
    /\ Len(invoked) >= 1

(***************************************************************************)
(* C9: the caller's list of messages is never changed by chat: it has the  *)
(* same messages in the same order as when chat was called.                *)
(***************************************************************************)
C9_CallerListUnchanged == lists["caller"] = messages0

C9_Witness ==
    /\ pc = "returned"
    /\ Len(lists["run"]) >= Len(messages0) + 2
    /\ lists["caller"] = messages0

(***************************************************************************)
(* C10: within a run the conversation is append-only: every step leaves    *)
(* the earlier conversation as a prefix of the later one.                  *)
(***************************************************************************)
C10_AppendOnly == [][pc # "start" => IsPrefix(Conversation, Conversation')]_vars

C10_Witness ==
    /\ pc = "loop"
    /\ iteration >= 1
    /\ Len(Conversation) >= Len(messages0) + 3

(***************************************************************************)
(* C11: the reasoning text of an assistant message is never replayed to    *)
(* the model: no message of any request sent by a run carries reasoning    *)
(* text that the run reconstructed from a streamed response.               *)
(***************************************************************************)
C11_ReasoningNeverReplayed ==
    stream =>
        \A k \in 1..Len(sent) :
            \A i \in RunPositions(sent[k]) : sent[k][i].reasoning_content = None

(***************************************************************************)
(* C12: stream decoding is fragmentation-invariant: two frame sequences    *)
(* whose content fragments, and whose reasoning fragments, concatenate in  *)
(* arrival order to the same text are decoded to the same assistant        *)
(* message.                                                                *)
(***************************************************************************)
BothDecoded == pc = "decoder" /\ decoded[1] # NotDecoded /\ decoded[2] # NotDecoded

C12_FragmentationInvariant ==
    BothDecoded =>
        /\ decoded[1] = decoded[2]
        /\ decoded[1].kind = "message"
        /\ decoded[1].message.content = ContentText(UpToDone(bodies[1]))

IsDelta(body) == \A i \in 1..Len(body) : body[i].kind = "delta"

C12_Witness ==
    /\ BothDecoded
    /\ IsDelta(bodies[1]) /\ IsDelta(bodies[2])
    /\ Len(bodies[1]) = 1 /\ Len(bodies[2]) = 2
    /\ bodies[1][1].content = FinalText
    /\ bodies[2][1].content = "do"
    /\ decoded[2].message.content = FinalText

(***************************************************************************)
(* C13: a frame sequence with one malformed frame at any position among    *)
(* well-formed frames is decoded to the same assistant message as the      *)
(* well-formed frames alone; the frames after the malformed one are still  *)
(* consumed.                                                               *)
(***************************************************************************)
RemoveAt(body, p) == SubSeq(body, 1, p - 1) \o SubSeq(body, p + 1, Len(body))

\* b is a with one malformed frame put in at position p.
MalformedInserted(a, b, p) ==
    /\ IsDelta(a)
    /\ p \in 1..Len(b)
    /\ b[p].kind = "malformed"
    /\ RemoveAt(b, p) = a

C13_MalformedFrameDropped ==
    (BothDecoded /\ \E p \in 1..Len(bodies[2]) : MalformedInserted(bodies[1], bodies[2], p))
        => /\ decoded[2] = decoded[1]
           /\ decoded[2].kind = "message"
           /\ decoded[2].message.content = ContentText(bodies[1])
           /\ decoded[2].message.tool_calls = ApplyFragments(<<>>, ToolFragments(bodies[1]))

C13_Witness ==
    /\ BothDecoded
    /\ MalformedInserted(bodies[1], bodies[2], 1)
    /\ Len(bodies[2]) = 2
    /\ bodies[2][2].content = FinalText
    /\ decoded[2].message.content = FinalText

(***************************************************************************)
(* C14: the atomic and the streamed channel are equivalent once decoded:   *)
(* for the same assistant message, tool calls without id included,         *)
(* delivered atomically and as frames, chat takes the same transition and  *)
(* appends tool messages with the same tool_call_id, name and content.     *)
(***************************************************************************)
\* A fragment of the body carries an id for the tool call at index.
CarriesId(fragments, index) ==
    \E i \in 1..Len(fragments) :
        /\ fragments[i].id # Absent
        /\ (IF fragments[i].index = NoIndex THEN 0 ELSE fragments[i].index) = index

\* The assistant message a body delivers, as the atomic channel delivers it: the
\* texts concatenated, each tool call with its name and arguments and with
\* the id its fragments carry, or without id when they carry none.
Delivered(body) ==
    LET fragments == ToolFragments(UpToDone(body))
        calls == ApplyFragments(<<>>, fragments)
    IN  AssistantMessage(
            ContentText(UpToDone(body)), None,
            [i \in 1..Len(calls) |->
                IF CarriesId(fragments, i - 1) THEN calls[i]
                ELSE [calls[i] EXCEPT !.id = NoId]])

AsResponse(message) == [kind |-> "message", message |-> message]

\* chat does the same with the two messages in cycle iter.
SameHandling(streamed, atomic, iter) ==
    /\ HandleResult(AsResponse(streamed)).next = HandleResult(AsResponse(atomic)).next
    /\ HandleResult(AsResponse(streamed)).value = HandleResult(AsResponse(atomic)).value
    /\ Len(streamed.tool_calls) = Len(atomic.tool_calls)
    /\ \A i \in 1..Len(atomic.tool_calls) :
          ProcessOne(streamed.tool_calls[i], iter) = ProcessOne(atomic.tool_calls[i], iter)

C14_ChannelsEquivalent ==
    pc = "decoder" =>
        \A d \in 1..2 :
            decoded[d].kind = "message" =>
                \A iter \in 0..MaxIterations :
                    SameHandling(decoded[d].message, Delivered(bodies[d]), iter)

(***************************************************************************)
(* C15: execute returns success = true only when the delegated run ended   *)
(* in Success, with its text as the result; when the delegated run ended   *)
(* in Exhausted or in Failure, execute returns success = false with an     *)
(* error text.                                                             *)
(***************************************************************************)
ExecuteReturned == pc \in {"executed", "delegated"}

LastInvokedCall == result.message.tool_calls[invoked[Len(invoked)][2]]

C16_KnownAgentNeverRaises ==
    (pc = "raised" /\ invoked # <<>> /\ task = NoTask) =>
        ~(/\ LastInvokedCall.name = "delegate_task"
          /\ LastInvokedCall.arguments = ARGS_KNOWN_AGENT)

(***************************************************************************)
(* C17: delegating to an agent type that is not in the profile table never *)
(* throws and never starts a sub-run: execute returns success = false with *)
(* an error text that enumerates the known agent types, and delegate_task  *)
(* returns a payload with status "error" that embeds that text.            *)
(***************************************************************************)
GHOST_ERROR == "unknown agent type: ghost. available agents: math_agent, time_agent"

GHOST_PAYLOAD ==
    "{\"status\": \"error\", \"agent\": \"ghost\", \"error\": \"unknown agent type: "
    \o "ghost. available agents: math_agent, time_agent\", \"task\": \"t\"}"

Last(list) == list[Len(list)]

\* The answers, in the sub-agent's conversation, to the delegate_task calls that
\* name the unknown agent type.
GhostAnswers(conv) ==
    {conv[p + i] : <<p, i>> \in
        {<<q, j>> \in BatchPositions(conv) \X (1..MaxToolCalls) :
            /\ j <= Len(conv[q].tool_calls)
            /\ q + j <= Len(conv)
            /\ conv[q].tool_calls[j].name = "delegate_task"
            /\ conv[q].tool_calls[j].arguments = ARGS_GHOST_AGENT}}

C17_UnknownAgentTypedError ==
    /\ task.agent_type = "ghost" =>
          /\ pc \in {"execute", "executed", "delegated"}
          /\ raised = None
          /\ sub_runs = 0
          /\ sent = <<>>
          /\ ExecuteReturned =>
                /\ ~execute_result.success
                /\ execute_result.error = GHOST_ERROR
          /\ pc = "delegated" =>
                /\ Last(parent_messages).role = "tool"
                /\ Last(parent_messages).content = GHOST_PAYLOAD
    /\ current_messages # None =>
          \A m \in GhostAnswers(Conversation) : m.role = "tool" /\ m.content = GHOST_PAYLOAD

C17_Witness ==
    /\ task.agent_type = "ghost"
    /\ pc = "delegated"
    /\ Last(parent_messages).content = GHOST_PAYLOAD
    /\ sub_runs = 0

(***************************************************************************)
(* C18: invoking delegate_task from a run whose conversation holds K       *)
(* messages leaves those K messages as they are: while the sub-agent runs  *)
(* the conversation does not change, and when delegate_task returns the    *)
(* run appends exactly one tool-role message with the delegation result.   *)
(***************************************************************************)
DelegationTexts ==
    {GHOST_PAYLOAD,
     "{\"status\": \"success\", \"agent\": \"name of math_agent\", \"result\": \"done.\", "
        \o "\"task\": \"t\"}",
     "{\"status\": \"success\", \"agent\": \"name of math_agent\", \"result\": null, "
        \o "\"task\": \"t\"}",
     "{\"status\": \"error\", \"agent\": \"name of math_agent\", \"error\": "
        \o "\"message of TypeError\", \"task\": \"t\"}",
     "{\"status\": \"error\", \"agent\": \"name of math_agent\", \"error\": "
        \o "\"message of KeyError\", \"task\": \"t\"}"}

NoDuplicates(list) == \A i, j \in 1..Len(list) : list[i] = list[j] => i = j

Resolved == call.op = "get_tools_for_groups"

C22_ResolutionOrderIndependent ==
    Resolved =>
        /\ call.raised = None
        /\ NoDuplicates(call.value)
        /\ \A other \in GroupLists :
              Range(other) = Range(call.arg) =>
                  \A tools \in get_tools_for_groups(other) :
                      /\ tools.raised = None
                      /\ NoDuplicates(tools.value)
                      /\ Range(tools.value) = Range(call.value)

\* Two overlapping groups were resolved: calculate is in both.
C22_Witness ==
    /\ Resolved
    /\ call.arg = <<"coordinator", "math">>
    /\ tool_groups = ToolGroupsDocument
    /\ Len(call.value) = 3

(***************************************************************************)
(* C23: get_tools_by_groups never fails on unknown names: a group name     *)
(* that is not in the group table and a member that is not in the tool     *)
(* registry contribute nothing, and the result holds the definition of     *)
(* every registered member of the requested groups that are in the table.  *)
(***************************************************************************)
KnownGroups(names) == Range(names) \cap DOMAIN tool_groups

RegisteredMembers(names) ==
    {n \in UNION {Range(tool_groups[g]) : g \in KnownGroups(names)} :
        n \in DOMAIN tools_registry}

C23_UnknownNamesContributeNothing ==
    Resolved =>
        /\ call.raised = None
        /\ Range(call.value) = {tools_registry[n] : n \in RegisteredMembers(call.arg)}

\* An unknown group was requested next to a group with an unregistered member.
C23_Witness ==
    /\ Resolved
    /\ call.arg = <<"ghost_group", "math">>
    /\ tool_groups = OtherGroupsDocument
    /\ call.raised = None
    /\ Len(call.value) = 1
    /\ call.value[1].function.name = "calculate"

(***************************************************************************)
(* C24: the group table is loaded once and is read-only afterwards: once   *)
(* load_tool_groups has run, no later operation changes the membership     *)
(* that get_tools_by_groups reads.                                         *)
(***************************************************************************)
C24_GroupTableLoadedOnce == [][initialized => tool_groups' = tool_groups]_vars

(***************************************************************************)
(* C25: registering a tool under a name that is already registered         *)
(* overwrites the prior entry without error: for every name registered     *)
(* after the import, the callable dispatch finds and the definition        *)
(* resolution returns are those of the latest registration of the name,    *)
(* and one entry carries the name.                                         *)
(***************************************************************************)
\* The latest registration under the name of registration k.
Latest(k) ==
    registrations[CHOOSE i \in 1..Len(registrations) :
                     /\ registrations[i].name = registrations[k].name
                     /\ \A j \in (i + 1)..Len(registrations) :
                           registrations[j].name # registrations[k].name]

C25_LastRegistrationWins ==
    /\ call.op = "tool" => call.raised = None
    /\ \A k \in 1..Len(registrations) :
          LET tool_name == registrations[k].name
              entry == ToolDefinition(tool_name, Latest(k).func)
          IN  /\ tool_name \in AVAILABLE_FUNCTIONS
              /\ available_functions[tool_name] = Latest(k).func
              /\ {d \in {tools_registry[n] : n \in DOMAIN tools_registry} :
                     d.function.name = tool_name} = {entry}
              /\ \A tools \in get_tools_for_groups(requested_groups) :
                    \A i \in 1..Len(tools.value) :
                        tools.value[i].function.name = tool_name => tools.value[i] = entry

\* calculate, registered at the import, was registered again, twice.
C25_Witness ==
    /\ registrations = <<[name |-> "calculate", func |-> "search_items"],
                         [name |-> "calculate", func |-> "calculate_v2"]>>
    /\ available_functions["calculate"] = "calculate_v2"
    /\ Resolved
    /\ \E i \in 1..Len(call.value) :
          call.value[i] = ToolDefinition("calculate", "calculate_v2")

(***************************************************************************)
(* C26: delegate_task always returns one serialized payload with the keys  *)
(* status, agent, task and exactly one of result and error: dispatching a  *)
(* delegate_task call appends a tool message whose content is the payload  *)
(* of what the executor reported, with status "success" and a result when  *)
(* it reported success and status "error" and an error otherwise, and with *)
(* the task description as the task.                                       *)
(***************************************************************************)
\* The object {"status": .., "agent": .., key: .., "task": ..} as json.dumps writes it.
JsonPayload(status, agent, key, val, task_description) ==
    "{\"status\": " \o JsonString(status) \o ", \"agent\": " \o JsonString(agent)
    \o ", " \o JsonString(key) \o ": " \o val
    \o ", \"task\": " \o JsonString(task_description) \o "}"

\* The payload the claim describes for what the executor reported.
PayloadOf(reported, agent_type, task_description) ==
    LET agent == IF reported.agent_name # Absent THEN reported.agent_name ELSE agent_type
    IN  IF reported.success
        THEN JsonPayload("success", agent, "result", JsonValue(reported.result),
                         task_description)
        ELSE JsonPayload("error", agent, "error", JsonString(reported.error),
                         task_description)

\* The tool call being dispatched is a delegate_task call with both arguments.
DispatchingDelegateTask ==
    /\ pc = "dispatch"
    /\ result.message.tool_calls[call_index].name = "delegate_task"
    /\ json_loads(result.message.tool_calls[call_index].arguments).kind = "dict"
    /\ DOMAIN json_loads(result.message.tool_calls[call_index].arguments).val
          = {"agent_type", "task_description"}

C26_DelegatePayload ==
    [][DispatchingDelegateTask =>
         LET a == json_loads(result.message.tool_calls[call_index].arguments).val
         IN  /\ pc' # "raised"
             /\ Last(lists'[current_messages]).role = "tool"
             /\ Last(lists'[current_messages]).name = "delegate_task"
             /\ \E r \in execute(a.agent_type.v, a.task_description.v) :
                   /\ r.raised = None
                   /\ Last(lists'[current_messages]).content
                         = PayloadOf(r.value, a.agent_type.v, a.task_description.v)]_vars

(***************************************************************************)
(* C27: dispatching a calculate call with numeric operands never raises    *)
(* and appends a tool message: for multiply with num1 = 3 and num2 = 4 its *)
(* content is "12", for divide with num2 = 0 it is the fixed               *)
(* division-by-zero text, and for an operation outside add, subtract,      *)
(* multiply and divide it is the fixed unsupported-operation text.         *)
(***************************************************************************)
\* The tool call being dispatched is a calculate call with numeric operands.
DispatchingCalculate ==
    /\ pc = "dispatch"
    /\ result.message.tool_calls[call_index].name = "calculate"
    /\ result.message.tool_calls[call_index].arguments \in DOMAIN CalculateTexts

C28_MissingConfigurationFiles ==
    [][/\ files[AGENTS_CONFIG_PATH] = Missing =>
            /\ agents_config' = <<>>
            /\ call'.op = "execute" =>
                  /\ call'.raised = None
                  /\ call'.value.success = FALSE
                  /\ call'.value.error
                        = UNKNOWN_AGENT_TYPE_TEXT \o call'.arg \o AVAILABLE_AGENTS_TEXT
                  /\ call'.value.agent_type = call'.arg
                  /\ sub_runs' = sub_runs
       /\ (call'.op = "initialize_tool_groups" /\ files[call'.arg] = Missing) =>
            /\ call'.raised = "FileNotFoundError"
            /\ tool_groups' = tool_groups
            /\ initialized' = initialized]_vars

\* With no profile file, a table was loaded from one path and a later
\* initialization from the missing default path failed and left it in place.
C28_Witness ==
    /\ files[AGENTS_CONFIG_PATH] = Missing
    /\ agents_config = <<>>
    /\ call.op = "initialize_tool_groups"
    /\ call.arg = DEFAULT_CONFIG_PATH
    /\ call.raised = "FileNotFoundError"
    /\ initialized
    /\ tool_groups = OtherGroupsDocument

(***************************************************************************)
(* C29: the tool calls of a batch are dispatched one at a time in position *)
(* order: the tool messages that follow an assistant message answer its    *)
(* tool calls in their order, tools are invoked in the order of iteration  *)
(* and position, and when the call at a position is dispatched the tool    *)
(* messages of all earlier positions of the batch have been appended.      *)
(***************************************************************************)
C29_BatchInPositionOrder ==
    pc # "start" =>
        /\ \A p \in BatchPositions(Conversation) :
              \A i \in 1..Len(Conversation[p].tool_calls) :
                  p + i <= Len(Conversation) =>
                      /\ Conversation[p + i].role = "tool"
                      /\ Conversation[p + i].name = Conversation[p].tool_calls[i].name
                      /\ Conversation[p + i].tool_call_id = AnswerId(Conversation, p, i)
        /\ \A k \in 1..(Len(invoked) - 1) :
              \/ invoked[k][1] < invoked[k + 1][1]
              \/ invoked[k][1] = invoked[k + 1][1] /\ invoked[k][2] < invoked[k + 1][2]
        /\ pc = "dispatch" =>
              \E p \in BatchPositions(Conversation) :
                  /\ Conversation[p] = result.message
                  /\ Len(Conversation) = p + call_index - 1

\* A batch of two calls of different tools has been answered, call by call.
C29_Witness ==
    /\ pc = "loop"
    /\ \E p \in BatchPositions(Conversation) :
          /\ Len(Conversation[p].tool_calls) = 2
          /\ Conversation[p].tool_calls[1].name # Conversation[p].tool_calls[2].name
          /\ Len(Conversation) = p + 2
          /\ Conversation[p + 1].name = Conversation[p].tool_calls[1].name
          /\ Conversation[p + 2].name = Conversation[p].tool_calls[2].name
    /\ Len(invoked) = 2

(***************************************************************************)
(* C30: when the arguments of a tool call are not well-formed,             *)
(* _process_tool_calls appends a tool message for that call whose content  *)
(* is the error payload, invokes no tool for it, and goes on to the next   *)
(* call of the batch; after the last call the run goes on to its next      *)
(* request.                                                                *)
(***************************************************************************)
\* The tool call being dispatched has arguments json.loads rejects.
DispatchingMalformed ==
    /\ pc = "dispatch"
    /\ json_loads(result.message.tool_calls[call_index].arguments).kind = "error"

ArgumentErrorPayload == "{\"error\": \"" \o ARGUMENT_FORMAT_ERROR \o "\"}"

C30_MalformedArgumentsAnswered ==
    [][DispatchingMalformed =>
         LET tool_calls == result.message.tool_calls
             tool_call == tool_calls[call_index]
             answer == Last(lists'[current_messages])
         IN  /\ Len(lists'[current_messages]) = Len(Conversation) + 1
             /\ answer.role = "tool"
             /\ answer.tool_call_id = ToolCallId(tool_call, iteration)
             /\ answer.name = tool_call.name
             /\ answer.content = ArgumentErrorPayload
             /\ invoked' = invoked
             /\ raised' = None
             /\ IF call_index < Len(tool_calls)
                THEN pc' = "dispatch" /\ call_index' = call_index + 1
                                      /\ iteration' = iteration
                ELSE pc' = "loop" /\ iteration' = iteration + 1]_vars

\* The first call of a batch of two had truncated arguments: it was answered
\* with the error payload, and the second call was executed.
C30_Witness ==
    /\ pc = "loop"
    /\ \E p \in BatchPositions(Conversation) :
          /\ Len(Conversation[p].tool_calls) = 2
          /\ Conversation[p].tool_calls[1].arguments = ARGS_TRUNCATED
          /\ Len(Conversation) = p + 2
          /\ Conversation[p + 1].content = ArgumentErrorPayload
          /\ Conversation[p + 2].content = "3"
    /\ invoked = <<<<0, 2, "calculate">>>>

(***************************************************************************)
(* C31: when a tool call with well-formed arguments names a function that  *)
(* is not in the registry, no tool is invoked and a tool message is        *)
(* appended that names the missing function in its name and in its error   *)
(* payload and carries the tool_call_id of the call; nothing is raised,    *)
(* the next call of the batch is processed next, and after the last call   *)
(* the run goes on to its next cycle.                                      *)
(***************************************************************************)
\* The tool call being dispatched parses and names an unregistered function.
DispatchingMissingFunction ==
    /\ pc = "dispatch"
    /\ json_loads(result.message.tool_calls[call_index].arguments).kind # "error"
    /\ result.message.tool_calls[call_index].name \notin AVAILABLE_FUNCTIONS

MissingFunctionPayload(function_name) ==
    "{\"error\": \"function " \o function_name \o " does not exist\"}"

C31_MissingFunctionAnswered ==
    [][DispatchingMissingFunction =>
         LET tool_calls == result.message.tool_calls
             tool_call == tool_calls[call_index]
             answer == Last(lists'[current_messages])
         IN  /\ Len(lists'[current_messages]) = Len(Conversation) + 1
             /\ answer.role = "tool"
             /\ answer.tool_call_id = ToolCallId(tool_call, iteration)
             /\ answer.name = tool_call.name
             /\ answer.content = MissingFunctionPayload(tool_call.name)
             /\ invoked' = invoked
             /\ raised' = None
             /\ IF call_index < Len(tool_calls)
                THEN pc' = "dispatch" /\ call_index' = call_index + 1
                                      /\ iteration' = iteration
                ELSE pc' = "loop" /\ iteration' = iteration + 1]_vars

\* The first call of a batch of two named no_such_tool: it was answered with
\* the error payload, the second call was executed, and the run has sent its
\* next request.
C31_Witness ==
    /\ pc = "decode"
    /\ Len(sent) = 2
    /\ \E p \in BatchPositions(Conversation) :
          /\ Len(Conversation[p].tool_calls) = 2
          /\ Conversation[p].tool_calls[1].name = "no_such_tool"
          /\ Conversation[p].tool_calls[1].id = "call_a"
          /\ Len(Conversation) = p + 2
          /\ Conversation[p + 1].tool_call_id = "call_a"
          /\ Conversation[p + 1].content = MissingFunctionPayload("no_such_tool")
          /\ Conversation[p + 2].content = "3"
    /\ invoked = <<<<0, 2, "calculate">>>>

(***************************************************************************)
(* C32: the iteration counter advances once per request/decode/dispatch    *)
(* cycle and not per tool call: while a run is under way the counter       *)
(* equals the number of batches of tool calls that have been dispatched    *)
(* completely, whatever the number of calls they hold, a step that answers *)
(* a call that is not the last of its batch leaves the counter alone, and  *)
(* the number of requests sent never exceeds max_iterations.  The number   *)
(* of tool calls executed is not bounded by max_iterations.                *)
(***************************************************************************)
C32_CounterPerCycle ==
    /\ pc \in {"loop", "decode", "dispatch", "returned"} =>
          /\ iteration = Cardinality(BatchPositions(Conversation))
                            - (IF pc = "dispatch" THEN 1 ELSE 0)
          /\ Len(sent) <= max_iterations
          /\ Len(sent) <= iteration + 1
    /\ pc = "dispatch" => call_index \in 1..Len(result.message.tool_calls)

\* A run with max_iterations = 1 has sent one request and executed two tool
\* calls, both of the one batch; the counter stands at 1.
C32_Witness ==
    /\ max_iterations = 1
    /\ pc = "loop"
    /\ iteration = 1
    /\ Len(sent) = 1
    /\ Len(invoked) = 2
    /\ invoked[1][1] = 0 /\ invoked[2][1] = 0

(***************************************************************************)
(* C33: each request embeds the full conversation so far: the first        *)
(* request of a run carries the caller's messages, each later request      *)
(* carries the messages of the request before it followed by the assistant *)
(* message of the cycle between them and one tool message for each of its  *)
(* tool calls, in order, and the messages of a request are the whole       *)
(* conversation of the run at the time it is sent.                         *)
(***************************************************************************)
\* later is earlier followed by one cycle: an assistant message with tool
\* calls, then a tool message for each of them.
ExtendsByOneCycle(earlier, later) ==
    /\ IsPrefix(earlier, later)
    /\ Len(later) > Len(earlier)
    /\ LET a == later[Len(earlier) + 1]
       IN  /\ a.role = "assistant"
           /\ a.tool_calls # <<>>
           /\ Len(later) = Len(earlier) + 1 + Len(a.tool_calls)
           /\ \A i \in 1..Len(a.tool_calls) :
                 /\ later[Len(earlier) + 1 + i].role = "tool"
                 /\ later[Len(earlier) + 1 + i].name = a.tool_calls[i].name

C33_RequestEmbedsConversation ==
    /\ sent # <<>> => sent[1] = messages0
    /\ \A n \in 1..(Len(sent) - 1) : ExtendsByOneCycle(sent[n], sent[n + 1])
    /\ \A n \in 1..Len(sent) : IsPrefix(sent[n], Conversation)
    /\ pc = "decode" => sent[Len(sent)] = Conversation

\* The second request of a run has been sent after a cycle with two tool
\* calls: it carries the caller's messages, the assistant message and the two
\* tool messages.
C33_Witness ==
    /\ pc = "decode"
    /\ Len(sent) = 2
    /\ Len(sent[2]) = Len(messages0) + 3
    /\ sent[2][Len(messages0) + 1].role = "assistant"
    /\ sent[2][Len(messages0) + 2].role = "tool"
    /\ sent[2][Len(messages0) + 3].role = "tool"

(***************************************************************************)
(* C34: the stream decoder reassembles tool calls by index: the decoded    *)
(* list of tool calls has length 1 + the highest index addressed (a        *)
(* fragment without an index addresses 0) and is empty when no fragment    *)
(* arrived; the arguments of entry i are the argument fragments addressed  *)
(* to i concatenated in arrival order, its id and its name are the last id *)
(* and the last name addressed to i, and an entry that was never addressed *)
(* is a placeholder with empty id, name and arguments.                     *)
(***************************************************************************)
AddressOf(fragment) == IF fragment.index = NoIndex THEN 0 ELSE fragment.index

HighestIndex(fragments) ==
    CHOOSE h \in {AddressOf(fragments[k]) : k \in 1..Len(fragments)} :
        \A k \in 1..Len(fragments) : AddressOf(fragments[k]) <= h

RECURSIVE ArgumentsTo(_, _)
ArgumentsTo(fragments, i) ==
    IF fragments = <<>> THEN ""
    ELSE (IF AddressOf(Head(fragments)) = i /\ Head(fragments).arguments # Absent
          THEN Head(fragments).arguments ELSE "")
         \o ArgumentsTo(Tail(fragments), i)

LastIdTo(fragments, i) ==
    LET ids == SelectSeq(fragments, LAMBDA f : AddressOf(f) = i /\ f.id # Absent)
    IN  IF ids = <<>> THEN "" ELSE ids[Len(ids)].id

LastNameTo(fragments, i) ==
    LET names == SelectSeq(fragments, LAMBDA f : AddressOf(f) = i /\ f.name # Absent)
    IN  IF names = <<>> THEN "" ELSE names[Len(names)].name

Reassembled == pc = "decoder" /\ Len(bodies) = 1 /\ decoded[1].kind = "message"

C34_ReassembledByIndex ==
    Reassembled =>
        LET fragments == ToolFragments(UpToDone(bodies[1]))
            tool_calls == decoded[1].message.tool_calls
        IN  /\ Len(tool_calls) = IF fragments = <<>> THEN 0 ELSE 1 + HighestIndex(fragments)
            /\ \A i \in 1..Len(tool_calls) :
                  /\ tool_calls[i].arguments = ArgumentsTo(fragments, i - 1)
                  /\ tool_calls[i].id = LastIdTo(fragments, i - 1)
                  /\ tool_calls[i].name = LastNameTo(fragments, i - 1)

\* A body whose first frame opens call 0 and whose second frame completes its
\* arguments; and a body that addresses index 1 and then index 0 and 1 again:
\* entry 0 takes the later id, entry 1 the later name.
C34_Witness ==
    /\ Reassembled
    /\ \/ /\ Len(bodies[1]) = 2
          /\ bodies[1][2].tool_calls = <<Fragment(NoIndex, Absent, Absent, ARGS_ADD_REST)>>
          /\ decoded[1].message.tool_calls = <<ToolCall("call_a", "calculate", ARGS_ADD)>>
       \/ decoded[1].message.tool_calls =
              <<ToolCall("call_c", "", ""), ToolCall("call_b", "calculate", ARGS_GHOST_AGENT)>>

(***************************************************************************)
(* C35: the end-of-stream marker terminates consumption: what the decoder  *)
(* returns for a body is what it returns for the frames before the first   *)
(* [DONE] marker, so the content of the rebuilt message is the content     *)
(* pieces before the marker and a frame after the marker neither adds to   *)
(* the message nor raises.                                                 *)
(***************************************************************************)
BodyDecoded == pc = "decoder" /\ Len(bodies) = 1 /\ decoded[1] # NotDecoded

C35_DoneEndsConsumption ==
    BodyDecoded =>
        /\ decoded[1] = _send_stream_request(UpToDone(bodies[1]))
        /\ decoded[1].kind = "message" =>
              decoded[1].message.content = ContentText(UpToDone(bodies[1]))
        /\ (bodies[1] # <<>> /\ bodies[1][1].kind = "done") =>
              decoded[1] = [kind |-> "message", message |-> NoMessage]

\* A body whose first frame is the marker and whose second frame carries a
\* tool call, content or a chunk of unexpected shape: the message is empty.
C35_Witness ==
    /\ BodyDecoded
    /\ Len(bodies[1]) = 2
    /\ bodies[1][1].kind = "done"
    /\ bodies[1][2].kind \in {"delta", "badshape"}
    /\ decoded[1] = [kind |-> "message", message |-> NoMessage]

(***************************************************************************)
(* C36: delegation is synchronous: from the moment the delegating run      *)
(* starts to execute a delegate_task call until it appends the tool        *)
(* message of that call, its conversation does not change (it sends no     *)
(* request and dispatches no other call); every request of the sub-agent's *)
(* run is sent inside that interval, the tool message is appended only     *)
(* when that run has ended, and nothing of the run happens afterwards.     *)
(***************************************************************************)
\* The run of the sub-agent, if one was started, has ended.
SubRunEnded == sub_runs = 0 \/ terminal # "none" \/ raised # None

WithoutDefault(parameters) ==
    LET bare == SelectSeq(parameters, LAMBDA param : param.default = Empty)
    IN  [i \in 1..Len(bare) |-> bare[i].name]

C37_SchemaOfDefaults ==
    \A n \in DOMAIN tools_registry :
        LET parameters == Signature(available_functions[n])
            schema == tools_registry[n].function.parameters
        IN  /\ schema.required = WithoutDefault(parameters)
            /\ DOMAIN schema.properties = {parameters[i].name : i \in 1..Len(parameters)}
            /\ \A i \in 1..Len(parameters) :
                  LET entry == schema.properties[parameters[i].name]
                  IN  IF parameters[i].default = Empty
                      THEN "default" \notin DOMAIN entry
                      ELSE "default" \in DOMAIN entry
                           /\ entry.default = parameters[i].default

\* search_items(query, max_results=10, category=None) has been registered
\* under its own name: query alone is required, and the two other parameters
\* carry their defaults, None included.
C37_Witness ==
    /\ "search_items" \in DOMAIN tools_registry
    /\ LET schema == tools_registry["search_items"].function.parameters
       IN  /\ schema.required = <<"query">>
           /\ schema.properties["max_results"].default = PyInt(10)
           /\ schema.properties["category"].default = PyNone
           /\ DOMAIN schema.properties["query"] = {"type", "description"}

(***************************************************************************)
(* C38: after any sequence of registrations by @tool, re-registrations of  *)
(* a name included, the names with a callable in AVAILABLE_FUNCTIONS are   *)
(* the names with a definition in the tool registry, and the definition    *)
(* stored under a name has that name as its function name; so every tool   *)
(* a resolution of groups returns is named by a key of                     *)
(* AVAILABLE_FUNCTIONS.                                                    *)
(***************************************************************************)
C38_RegistriesAgree ==
    /\ DOMAIN available_functions = DOMAIN tools_registry
    /\ \A n \in DOMAIN tools_registry : tools_registry[n].function.name = n
    /\ (call.op = "get_tools_for_groups" /\ call.raised = None) =>
          \A i \in 1..Len(call.value) :
              call.value[i].function.name \in DOMAIN available_functions

\* search_items has been registered under the name calculate and then under
\* its own name, and the groups resolved afterwards offer calculate.
C38_Witness ==
    /\ registrations = <<[name |-> "calculate", func |-> "search_items"],
                         [name |-> "search_items", func |-> "search_items"]>>
    /\ available_functions["calculate"] = "search_items"
    /\ tools_registry["calculate"].function.name = "calculate"
    /\ call.op = "get_tools_for_groups"
    /\ \E i \in 1..Len(call.value) : call.value[i].function.name = "calculate"

(***************************************************************************)
(* C39: every tool message _process_tool_calls appends carries as          *)
(* tool_call_id the id of the call it answers when the call has an id key, *)
(* also when that id is the empty string the stream decoder leaves, and    *)
(* otherwise the fallback call_<iteration>, with the zero-based iteration  *)
(* of the cycle; the iteration does not change within a batch, so the      *)
(* fallback is the same for every id-less call of the batch.               *)
(***************************************************************************)
\* The dispatch step under way appends a message.
AppendsToolMessage ==
    pc = "dispatch" /\ Len(lists'[current_messages]) = Len(Conversation) + 1

C39_ToolCallIdOfAnswer ==
    [][AppendsToolMessage =>
         LET tool_calls == result.message.tool_calls
             tool_call == tool_calls[call_index]
             answer == Last(lists'[current_messages])
         IN  /\ answer.role = "tool"
             /\ iteration = Len(sent) - 1
             /\ answer.tool_call_id = IF tool_call.id = NoId
                                      THEN "call_" \o ToString(Len(sent) - 1)
                                      ELSE tool_call.id
             /\ call_index < Len(tool_calls) => iteration' = iteration]_vars

\* Answered id-less calls: two of one batch in the first cycle, both under
\* call_0; one in the second cycle, under call_1; and a streamed call whose id
\* is the decoder's empty string, answered under the empty string.
C39_Witness ==
    /\ pc = "loop"
    /\ \E p \in BatchPositions(Conversation) :
          LET tool_calls == Conversation[p].tool_calls
          IN  \/ /\ Len(tool_calls) = 2
                 /\ tool_calls[1].id = NoId /\ tool_calls[2].id = NoId
                 /\ Len(Conversation) = p + 2
                 /\ Conversation[p + 1].tool_call_id = "call_0"
                 /\ Conversation[p + 2].tool_call_id = "call_0"
              \/ /\ tool_calls[1].id = NoId
                 /\ Len(Conversation) = p + 1
                 /\ Conversation[p + 1].tool_call_id = "call_1"
              \/ /\ stream
                 /\ tool_calls[1].id = ""
                 /\ Len(Conversation) > p
                 /\ Conversation[p + 1].tool_call_id = ""

====
